---------------------------- MODULE Spec2Model ----------------------------
(***************************************************************************)
(* A model of the GM/T reference implementations of arkq/SM2349: SM2       *)
(* (signature, public-key encryption, key exchange), the SM3 based KDF,    *)
(* SM4 and ZUC.                                                            *)
(*                                                                         *)
(* Scaling.  TLC computes with 32-bit integers, so the 256-bit SM2 curve   *)
(* is replaced by a curve of the same shape over a small prime field:      *)
(* y^2 = x^3 + a*x + b over GF(p) with a = p - 3, a group of prime order   *)
(* n < p and cofactor h = 1.  Scalars, coordinates and digests are         *)
(* SM2_NUMWORD = 2 bytes wide instead of 32.  The control flow, the byte   *)
(* layouts, the order of the checks and the error codes are those of the   *)
(* source.  SM4 and ZUC are modelled at full width (32-bit words kept as   *)
(* pairs of 16-bit halves).                                                *)
(***************************************************************************)
EXTENDS Integers, Sequences, FiniteSets, TLC

(***************************************************************************)
(* Bounds of the exploration.                                              *)
(***************************************************************************)
MaxKlen == 5
MaxByteSym == 2
MaxMsgLen == 2
MaxEncLen == 3
MaxSm4Pos == 8
MaxZucLen == 2
MaxKsLen == 2
MaxKxKey == 2
MaxKxKlen == 1
KdfFar == 508

(***************************************************************************)
(* Widths (SM2_sv.h, SM2_ENC.c) and the scaled curve parameters.           *)
(***************************************************************************)
SM2_WORDSIZE == 8
SM2_NUMBITS == 16
SM2_NUMWORD == SM2_NUMBITS \div SM2_WORDSIZE
SM3_len == SM2_NUMBITS

SM2_p == 23
SM2_a == 20
SM2_b == 15
SM2_n == 17
SM2_Gx == 1
SM2_Gy == 6
SM2_h == 1

Byte == 0..255
USHORT == 65536

(***************************************************************************)
(* Bytes <-> big integers (MIRACL bytes_to_big / big_to_bytes with         *)
(* justify = TRUE): big-endian, fixed width.                               *)
(***************************************************************************)
RECURSIVE bytes_to_big(_)
bytes_to_big(s) ==
  IF s = <<>> THEN 0
  ELSE bytes_to_big(SubSeq(s, 1, Len(s) - 1)) * 256 + s[Len(s)]

RECURSIVE big_to_bytes(_, _)
big_to_bytes(len, x) ==
  IF len = 0 THEN <<>>
  ELSE Append(big_to_bytes(len - 1, x \div 256), x % 256)

(***************************************************************************)
(* Memory written through a pointer.  A callee's writes are kept as a log  *)
(* of memcpy records, [off, src]: the bytes src stored at offset off from  *)
(* the pointer the callee was given (a negative offset lies before the     *)
(* buffer).  Written(log) is the resulting memory: a function from the     *)
(* offsets written to the byte last stored there.                          *)
(***************************************************************************)
memcpy(log, off, src, cnt) ==
  IF cnt = 0 THEN log ELSE Append(log, [off |-> off, src |-> SubSeq(src, 1, cnt)])

NoWrites == <<>>

WrittenOffsets(log) ==
  UNION {log[w].off .. (log[w].off + Len(log[w].src) - 1) : w \in DOMAIN log}

LastWrite(log, o) ==
  CHOOSE w \in DOMAIN log :
    /\ o >= log[w].off /\ o < log[w].off + Len(log[w].src)
    /\ \A v \in DOMAIN log :
         (o >= log[v].off /\ o < log[v].off + Len(log[v].src)) => v <= w

Written(log) ==
  [o \in WrittenOffsets(log) |-> log[LastWrite(log, o)].src[o - log[LastWrite(log, o)].off + 1]]

(***************************************************************************)
(* SM3.  SM3.c is not part of the sources at hand; the hash is modelled as *)
(* an iterated hash with the interface init / process / done and the       *)
(* padding rule of the specification (0x80, then the length), on a 16-bit  *)
(* chaining value.  It is a deterministic function of the byte string,     *)
(* sensitive to every byte and to the length.                              *)
(***************************************************************************)
SM3_compress(V, byte) == (V * 251 + byte + 1) % 65536

SM3_init == [state |-> 29568, length |-> 0]

RECURSIVE SM3_process(_, _)
SM3_process(md, buf) ==
  IF buf = <<>> THEN md
  ELSE SM3_process([state |-> SM3_compress(md.state, Head(buf)),
                    length |-> md.length + 1], Tail(buf))

SM3_done(md) ==
  big_to_bytes(SM3_len \div 8,
               SM3_compress(SM3_compress(md.state, 128), (md.length * 8) % 256))

SM3_256(buf) == SM3_done(SM3_process(SM3_init, buf))

(***************************************************************************)
(* SM3_KDF (KDF.h).  The counter ct[4] is stepped with the source's carry  *)
(* chain; klen, i, j and t are unsigned short, bitklen unsigned int.  The  *)
(* result is the log of the function's writes through K.                   *)
(***************************************************************************)
\* The counter increment without the carry into the higher bytes.
KDF_ct_NoCarry(ct) == <<ct[1], ct[2], ct[3], (ct[4] + 1) % 256>>

KDF_ct_next(ct) ==
  IF ct[4] = 255
  THEN IF ct[3] = 255
       THEN IF ct[2] = 255
            THEN <<(ct[1] + 1) % 256, 0, 0, 0>>
            ELSE <<ct[1], ct[2] + 1, 0, 0>>
       ELSE <<ct[1], ct[2], ct[3] + 1, 0>>
  ELSE <<ct[1], ct[2], ct[3], ct[4] + 1>>

KDF_Ha(Z, ct) == SM3_done(SM3_process(SM3_process(SM3_init, Z), ct))

KDF_t(bitklen) ==
  IF bitklen % SM2_NUMBITS # 0
  THEN (bitklen \div SM2_NUMBITS + 1) % USHORT
  ELSE (bitklen \div SM2_NUMBITS) % USHORT

KDF_body(Z, st) ==
  [i |-> st.i + 1,
   ct |-> KDF_ct_next(st.ct),
   K |-> memcpy(st.K, SM2_NUMWORD * (st.i - 1), KDF_Ha(Z, st.ct), SM2_NUMWORD)]

\* The for loop "for (i = 1; i < t; i++)".  It is evaluated in segments of
\* LoopSegment iterations, which only bounds the depth of TLC's evaluation.
LoopSegment == 64

RECURSIVE KDF_segment(_, _, _, _)
KDF_segment(Z, t, st, left) ==
  IF st.i < t /\ left > 0 THEN KDF_segment(Z, t, KDF_body(Z, st), left - 1) ELSE st

RECURSIVE KDF_loop(_, _, _)
KDF_loop(Z, t, st) ==
  IF st.i < t THEN KDF_loop(Z, t, KDF_segment(Z, t, st, LoopSegment)) ELSE st

KDF_last(bitklen, t, Ha, K) ==
  IF bitklen % SM2_NUMBITS # 0
  THEN memcpy(K, SM2_NUMWORD * (t - 1), Ha,
              (bitklen - SM2_NUMBITS * (bitklen \div SM2_NUMBITS)) \div 8)
  ELSE memcpy(K, SM2_NUMWORD * (t - 1), Ha, SM2_NUMWORD)

SM3_KDF(Z, klen) ==
  LET bitklen == (klen % USHORT) * 8
      t == KDF_t(bitklen)
      lp == KDF_loop(Z, t, [i |-> 1, ct |-> <<0, 0, 0, 1>>, K |-> NoWrites])
  IN  KDF_last(bitklen, t, KDF_Ha(Z, lp.ct), lp.K)

(***************************************************************************)
(* The curve backend (MIRACL), as the specification's backend interface    *)
(* describes it: points with a distinguished infinity, set (false when     *)
(* off the curve), get, scalar multiplication, addition, infinity test.    *)
(***************************************************************************)
Infinity == [inf |-> TRUE, x |-> 0, y |-> 0]

Affine(x, y) == [inf |-> FALSE, x |-> x, y |-> y]

InvMod(x, m) == CHOOSE i \in 0 .. (m - 1) : (i * x) % m = 1 \/ (i = 0 /\ \A j \in 1 .. (m - 1) : (j * x) % m # 1)

OnCurve(x, y) ==
  (y * y) % SM2_p = (x * x * x + SM2_a * x + SM2_b) % SM2_p

\* epoint_init(): a fresh point is the point at infinity.
epoint_init == Infinity

\* epoint_set(x, y, 0, P): P is set only when (x, y) satisfies the curve
\* equation; otherwise FALSE is returned and P keeps its marker.
epoint_set(x, y, P) ==
  IF OnCurve(x % SM2_p, y % SM2_p)
  THEN [ok |-> TRUE, pt |-> Affine(x % SM2_p, y % SM2_p)]
  ELSE [ok |-> FALSE, pt |-> P]

\* epoint_get(P, x, y): the affine coordinates; zero for the point at infinity.
epoint_get(P) == IF P.inf THEN <<0, 0>> ELSE <<P.x, P.y>>

point_at_infinity(P) == P.inf

ecurve_double(P) ==
  IF P.inf \/ P.y = 0 THEN Infinity
  ELSE LET l == ((3 * P.x * P.x + SM2_a) * InvMod((2 * P.y) % SM2_p, SM2_p)) % SM2_p
           x3 == (l * l + 2 * SM2_p - 2 * P.x) % SM2_p
       IN  Affine(x3, (l * (P.x + SM2_p - x3) + SM2_p - P.y) % SM2_p)

\* ecurve_add(P, Q): Q = P + Q.
ecurve_add(P, Q) ==
  IF P.inf THEN Q
  ELSE IF Q.inf THEN P
  ELSE IF P.x = Q.x
       THEN IF P.y = Q.y THEN ecurve_double(P) ELSE Infinity
       ELSE LET l == ((Q.y + SM2_p - P.y) * InvMod((Q.x + SM2_p - P.x) % SM2_p, SM2_p)) % SM2_p
                x3 == (l * l + 2 * SM2_p - P.x - Q.x) % SM2_p
            IN  Affine(x3, (l * (P.x + SM2_p - x3) + SM2_p - P.y) % SM2_p)

\* ecurve_mult(k, P, Q): Q = [k]P, for k >= 0.
RECURSIVE ecurve_mult(_, _)
ecurve_mult(k, P) ==
  IF k = 0 THEN Infinity
  ELSE LET half == ecurve_double(ecurve_mult(k \div 2, P))
       IN  IF k % 2 = 1 THEN ecurve_add(half, P) ELSE half

\* xgcd(x, n, x, x, x): x = 1/x mod n (x prime to n).
xgcd(x, m) == InvMod(x % m, m)

(***************************************************************************)
(* Error codes of SM2_sv.h.                                                *)
(***************************************************************************)
ERR_ECURVE_INIT == 1
ERR_INFINITY_POINT == 2
ERR_NOT_VALID_POINT == 3
ERR_ORDER == 4
ERR_NOT_VALID_ELEMENT == 5
ERR_GENERATE_R == 6
ERR_GENERATE_S == 7
ERR_OUTRANGE_R == 8
ERR_OUTRANGE_S == 9
ERR_GENERATE_T == 10
ERR_PUBKEY_INIT == 11
ERR_DATA_MEMCMP == 12

(***************************************************************************)
(* SM2_sv.c: SM2_Init and the tests.  Every function returns a record; its *)
(* field ops lists, in program order, the backend calls and checks made,   *)
(* and ret is the function's return value.                                 *)
(***************************************************************************)
G == Affine(SM2_Gx, SM2_Gy)

SM2_Init ==
  LET set == epoint_set(SM2_Gx, SM2_Gy, epoint_init)
      nG == ecurve_mult(SM2_n, set.pt)
  IN  IF ~set.ok
      THEN [ret |-> ERR_ECURVE_INIT, ops |-> <<"SM2_Init", "epoint_set G">>]
      ELSE IF ~point_at_infinity(nG)
      THEN [ret |-> ERR_ORDER, ops |-> <<"SM2_Init", "epoint_set G", "ecurve_mult n G">>]
      ELSE [ret |-> 0, ops |-> <<"SM2_Init", "epoint_set G", "ecurve_mult n G">>]

Test_Point(point) ==
  LET xy == epoint_get(point)
      x_3 == (xy[1] * xy[1] * xy[1]) % SM2_p
      ax == (xy[1] * SM2_a) % SM2_p
      x == (x_3 + ax + SM2_b) % SM2_p
      y == (xy[2] * xy[2]) % SM2_p
  IN  IF x # y THEN ERR_NOT_VALID_POINT ELSE 0

\* Test_PubKey with the curve equation tested before the range of x and y.
Test_PubKey_Swapped(pubKey) ==
  LET xy == epoint_get(pubKey)
  IN  IF point_at_infinity(pubKey) THEN ERR_INFINITY_POINT
      ELSE IF Test_Point(pubKey) # 0 THEN ERR_NOT_VALID_POINT
      ELSE IF ~(xy[1] < SM2_p) \/ ~(xy[2] < SM2_p) THEN ERR_NOT_VALID_ELEMENT
      ELSE IF ~point_at_infinity(ecurve_mult(SM2_n, pubKey)) THEN ERR_ORDER
      ELSE 0

Test_PubKey(pubKey) ==
  LET xy == epoint_get(pubKey)
  IN  IF point_at_infinity(pubKey) THEN ERR_INFINITY_POINT
      ELSE IF ~(xy[1] < SM2_p) \/ ~(xy[2] < SM2_p) THEN ERR_NOT_VALID_ELEMENT
      ELSE IF Test_Point(pubKey) # 0 THEN ERR_NOT_VALID_POINT
      ELSE IF ~point_at_infinity(ecurve_mult(SM2_n, pubKey)) THEN ERR_ORDER
      ELSE 0

\* Test_Zero with the comparison dropped.
Test_Zero_Never(x) == 0

Test_Zero(x) == IF x = 0 THEN 1 ELSE 0

\* Test_n comparing with n - 1 instead of n.
Test_n_OffByOne(x) == IF x = SM2_n - 1 THEN 1 ELSE 0

Test_n(x) == IF x = SM2_n THEN 1 ELSE 0

\* Test_Range with the upper limit n - 2 instead of n - 1.
Test_Range_Short(x) == IF x < 1 \/ x > SM2_n - 2 THEN 1 ELSE 0

Test_Range(x) == IF x < 1 \/ x > SM2_n - 1 THEN 1 ELSE 0

(***************************************************************************)
(* SM2_sv.c: key generation, signature, verification.  Byte arrays are     *)
(* sequences; live counts the malloc'ed blocks not freed at the return.    *)
(***************************************************************************)
SM2_KeyGeneration(PriKey) ==
  LET init == SM2_Init
      d == bytes_to_big(PriKey)
      PA == ecurve_mult(d, G)
      xy == epoint_get(PA)
  IN  [ret |-> Test_PubKey(PA),
       Px |-> big_to_bytes(SM2_NUMWORD, xy[1]),
       Py |-> big_to_bytes(SM2_NUMWORD, xy[2]),
       ops |-> init.ops \o <<"ecurve_mult d G", "write Px Py", "Test_PubKey">>]

\* SM2_Sign storing R and S before it tests s.
SM2_Sign_EarlyR(message, ZA, rand, d) ==
  LET init == SM2_Init
      dA == bytes_to_big(d)
      M == SubSeq(ZA, 1, SM3_len \div 8) \o message
      e == bytes_to_big(SM3_256(M))
      k == bytes_to_big(rand)
      KG == ecurve_mult(k, G)
      r == (e + epoint_get(KG)[1]) % SM2_n
      rk == r + k
      z1 == xgcd(dA + 1, SM2_n)
      z2 == (k - ((r * dA) % SM2_n)) + SM2_n
      s_ == (z1 * z2) % SM2_n
      ops1 == init.ops \o <<"malloc M", "SM3_256", "ecurve_mult k G", "Test_Zero r", "Test_n rk">>
      ops2 == ops1 \o <<"xgcd", "Test_Zero s">>
  IN  IF init.ret # 0
      THEN [ret |-> init.ret, wrote |-> FALSE, R |-> <<>>, S |-> <<>>,
            r |-> 0, s |-> 0, ops |-> init.ops, live |-> 0]
      ELSE IF Test_Zero(r) = 1 \/ Test_n(rk) = 1
      THEN [ret |-> ERR_GENERATE_R, wrote |-> FALSE, R |-> <<>>, S |-> <<>>,
            r |-> r, s |-> 0, ops |-> ops1, live |-> 1]
      ELSE IF Test_Zero(s_) = 1
      THEN [ret |-> ERR_GENERATE_S, wrote |-> TRUE,
            R |-> big_to_bytes(SM2_NUMWORD, r), S |-> big_to_bytes(SM2_NUMWORD, s_),
            r |-> r, s |-> s_, ops |-> ops2, live |-> 1]
      ELSE [ret |-> 0, wrote |-> TRUE,
            R |-> big_to_bytes(SM2_NUMWORD, r), S |-> big_to_bytes(SM2_NUMWORD, s_),
            r |-> r, s |-> s_, ops |-> ops2 \o <<"write R S", "free M">>, live |-> 0]

SM2_Sign(message, ZA, rand, d) ==
  LET init == SM2_Init
      dA == bytes_to_big(d)
      M == SubSeq(ZA, 1, SM3_len \div 8) \o message
      e == bytes_to_big(SM3_256(M))
      k == bytes_to_big(rand)
      KG == ecurve_mult(k, G)
      r == (e + epoint_get(KG)[1]) % SM2_n
      rk == r + k
      z1 == xgcd(dA + 1, SM2_n)
      z2 == (k - ((r * dA) % SM2_n)) + SM2_n
      s_ == (z1 * z2) % SM2_n
      ops1 == init.ops \o <<"malloc M", "SM3_256", "ecurve_mult k G", "Test_Zero r", "Test_n rk">>
      ops2 == ops1 \o <<"xgcd", "Test_Zero s">>
  IN  IF init.ret # 0
      THEN [ret |-> init.ret, wrote |-> FALSE, R |-> <<>>, S |-> <<>>,
            r |-> 0, s |-> 0, ops |-> init.ops, live |-> 0]
      ELSE IF Test_Zero(r) = 1 \/ Test_n(rk) = 1
      THEN [ret |-> ERR_GENERATE_R, wrote |-> FALSE, R |-> <<>>, S |-> <<>>,
            r |-> r, s |-> 0, ops |-> ops1, live |-> 1]
      ELSE IF Test_Zero(s_) = 1
      THEN [ret |-> ERR_GENERATE_S, wrote |-> FALSE, R |-> <<>>, S |-> <<>>,
            r |-> r, s |-> s_, ops |-> ops2, live |-> 1]
      ELSE [ret |-> 0, wrote |-> TRUE,
            R |-> big_to_bytes(SM2_NUMWORD, r), S |-> big_to_bytes(SM2_NUMWORD, s_),
            r |-> r, s |-> s_, ops |-> ops2 \o <<"write R S", "free M">>, live |-> 0]

\* SM2_Verify with r in the place of t in step 6.
SM2_Verify_RForT(message, ZA, Px, Py, R, S) ==
  LET init == SM2_Init
      r == bytes_to_big(R)
      s_ == bytes_to_big(S)
      set == epoint_set(bytes_to_big(Px), bytes_to_big(Py), epoint_init)
      e == bytes_to_big(SM3_256(SubSeq(ZA, 1, SM3_len \div 8) \o message))
      tPA == ecurve_add(ecurve_mult(s_, G), ecurve_mult(r, set.pt))
  IN  IF init.ret # 0 THEN [ret |-> init.ret, ops |-> init.ops, live |-> 0]
      ELSE IF ~set.ok THEN [ret |-> ERR_PUBKEY_INIT, ops |-> init.ops, live |-> 0]
      ELSE IF Test_Range(r) = 1 THEN [ret |-> ERR_OUTRANGE_R, ops |-> init.ops, live |-> 0]
      ELSE IF Test_Range(s_) = 1 THEN [ret |-> ERR_OUTRANGE_S, ops |-> init.ops, live |-> 0]
      ELSE IF Test_Zero((r + s_) % SM2_n) = 1
      THEN [ret |-> ERR_GENERATE_T, ops |-> init.ops, live |-> 1]
      ELSE IF (e + epoint_get(tPA)[1]) % SM2_n = r
      THEN [ret |-> 0, ops |-> init.ops, live |-> 0]
      ELSE [ret |-> ERR_DATA_MEMCMP, ops |-> init.ops, live |-> 0]

SM2_Verify(message, ZA, Px, Py, R, S) ==
  LET init == SM2_Init
      PAx == bytes_to_big(Px)
      PAy == bytes_to_big(Py)
      r == bytes_to_big(R)
      s_ == bytes_to_big(S)
      set == epoint_set(PAx, PAy, epoint_init)
      PA == set.pt
      M == SubSeq(ZA, 1, SM3_len \div 8) \o message
      e == bytes_to_big(SM3_256(M))
      t == (r + s_) % SM2_n
      sG == ecurve_mult(s_, G)
      tPA == ecurve_add(sG, ecurve_mult(t, PA))
      RR == (e + epoint_get(tPA)[1]) % SM2_n
      ops0 == init.ops \o <<"epoint_set PA">>
      ops1 == ops0 \o <<"Test_Range r">>
      ops2 == ops1 \o <<"Test_Range s">>
      ops3 == ops2 \o <<"malloc M", "SM3_256", "Test_Zero t">>
      ops4 == ops3 \o <<"ecurve_mult s G", "ecurve_mult t PA", "ecurve_add", "free M", "compare RR r">>
  IN  IF init.ret # 0 THEN [ret |-> init.ret, ops |-> init.ops, live |-> 0]
      ELSE IF ~set.ok THEN [ret |-> ERR_PUBKEY_INIT, ops |-> ops0, live |-> 0]
      ELSE IF Test_Range(r) = 1 THEN [ret |-> ERR_OUTRANGE_R, ops |-> ops1, live |-> 0]
      ELSE IF Test_Range(s_) = 1 THEN [ret |-> ERR_OUTRANGE_S, ops |-> ops2, live |-> 0]
      ELSE IF Test_Zero(t) = 1 THEN [ret |-> ERR_GENERATE_T, ops |-> ops3, live |-> 1]
      ELSE IF RR = r THEN [ret |-> 0, ops |-> ops4, live |-> 0]
      ELSE [ret |-> ERR_DATA_MEMCMP, ops |-> ops4, live |-> 0]

(***************************************************************************)
(* SM2_ENC.c.  Its header SM2_ENC.h is not part of the sources; the error   *)
(* codes are the numbers the functions' comments give.  A buffer handed to  *)
(* a function is the log of the writes made to it, its initial content      *)
(* being the first write.                                                   *)
(***************************************************************************)
ENC_ERR_INFINITY_POINT == 1
ENC_ERR_NOT_VALID_ELEMENT == 2
ENC_ERR_NOT_VALID_POINT == 3
ENC_ERR_ORDER == 4
ERR_ARRAY_NULL == 5
ERR_C3_MATCH == 6

\* The C operators &, | and ^ on bytes: & bit by bit, the others from it
\* (a | b = a + b - (a & b), a ^ b = a + b - 2 (a & b)).
And(a, b) ==
  ((a % 2) * (b % 2))
    + 2 * (((a \div 2) % 2) * ((b \div 2) % 2))
    + 4 * (((a \div 4) % 2) * ((b \div 4) % 2))
    + 8 * (((a \div 8) % 2) * ((b \div 8) % 2))
    + 16 * (((a \div 16) % 2) * ((b \div 16) % 2))
    + 32 * (((a \div 32) % 2) * ((b \div 32) % 2))
    + 64 * (((a \div 64) % 2) * ((b \div 64) % 2))
    + 128 * (((a \div 128) % 2) * ((b \div 128) % 2))

Or(a, b) == (a + b) - And(a, b)

Xor(a, b) == (a + b) - (2 * And(a, b))

\* The writes of log taken as made at the start of the enclosing buffer.
Shift_None(log, base) == log

\* The writes of log, made relative to a buffer that starts base bytes into
\* the enclosing one.
Shift(log, base) == [w \in DOMAIN log |-> [off |-> log[w].off + base, src |-> log[w].src]]

\* The cnt bytes of the buffer from offset off on.
ReadBytes(log, off, cnt) == [i \in 1 .. cnt |-> Written(log)[off + i - 1]]

\* Test_Point accepting every point.
ENC_Test_Point_Pass(point) == 0

ENC_Test_Point(point) ==
  LET xy == epoint_get(point)
      x_3 == (xy[1] * xy[1] * xy[1]) % SM2_p
      ax == (xy[1] * SM2_a) % SM2_p
      x == (x_3 + ax + SM2_b) % SM2_p
      y == (xy[2] * xy[2]) % SM2_p
  IN  IF x # y THEN ENC_ERR_NOT_VALID_POINT ELSE 0

ENC_Test_PubKey(pubKey) ==
  LET xy == epoint_get(pubKey)
  IN  IF point_at_infinity(pubKey) THEN ENC_ERR_INFINITY_POINT
      ELSE IF ~(xy[1] < SM2_p) \/ ~(xy[2] < SM2_p) THEN ENC_ERR_NOT_VALID_ELEMENT
      ELSE IF ENC_Test_Point(pubKey) # 0 THEN ENC_ERR_NOT_VALID_POINT
      ELSE IF ~point_at_infinity(ecurve_mult(SM2_n, pubKey)) THEN ENC_ERR_ORDER
      ELSE 0

\* Test_Null finding a non-zero byte in every array.
Test_Null_Never(array, len) == 0

Test_Null(array, len) ==
  IF \E i \in 1 .. len : array[i] # 0 THEN 0 ELSE 1

ENC_SM2_KeyGeneration(priKey) ==
  LET pubKey == ecurve_mult(priKey, G)
  IN  [ret |-> IF ENC_Test_PubKey(pubKey) # 0 THEN 1 ELSE 0,
       pubKey |-> pubKey,
       ops |-> <<"ecurve_mult d G", "Test_PubKey">>]

SM2_Encrypt(randK, pubKey, M, klen, C) ==
  LET rand == bytes_to_big(randK)
      C1 == epoint_get(ecurve_mult(rand, G))
      w1 == memcpy(memcpy(C, 0, big_to_bytes(SM2_NUMWORD, C1[1]), SM2_NUMWORD),
                   SM2_NUMWORD, big_to_bytes(SM2_NUMWORD, C1[2]), SM2_NUMWORD)
      S == ecurve_mult(SM2_h, pubKey)
      kP == epoint_get(ecurve_mult(rand, pubKey))
      x2 == big_to_bytes(SM2_NUMWORD, kP[1])
      y2 == big_to_bytes(SM2_NUMWORD, kP[2])
      w2 == w1 \o Shift(SM3_KDF(x2 \o y2, klen), SM2_NUMWORD * 3)
      t == ReadBytes(w2, SM2_NUMWORD * 3, klen)
      w3 == memcpy(w2, SM2_NUMWORD * 3, [i \in 1 .. klen |-> Xor(M[i], t[i])], klen)
      C3 == SM3_done(SM3_process(SM3_process(SM3_process(SM3_init, x2), SubSeq(M, 1, klen)), y2))
      w4 == memcpy(w3, SM2_NUMWORD * 2, C3, SM2_NUMWORD)
      ops1 == <<"ecurve_mult k G", "write C1", "ecurve_mult h P">>
      ops2 == ops1 \o <<"ecurve_mult k P", "SM3_KDF", "Test_Null">>
  IN  IF point_at_infinity(S)
      THEN [ret |-> ENC_ERR_INFINITY_POINT, C |-> w1, ops |-> ops1]
      ELSE IF Test_Null(t, klen) # 0
           THEN [ret |-> ERR_ARRAY_NULL, C |-> w2, ops |-> ops2]
           ELSE [ret |-> 0, C |-> w4, ops |-> ops2 \o <<"write C2", "write C3">>]

\* SM2_Decrypt without the comparison of step 6.
SM2_Decrypt_NoTag(dB, C, Clen, M) ==
  LET C1x == bytes_to_big(SubSeq(C, 1, SM2_NUMWORD))
      C1y == bytes_to_big(SubSeq(C, SM2_NUMWORD + 1, SM2_NUMWORD * 2))
      C1 == epoint_set(C1x, C1y, epoint_init).pt
      i == ENC_Test_Point(C1)
      S == ecurve_mult(SM2_h, C1)
      dBC1 == epoint_get(ecurve_mult(dB, C1))
      x2 == big_to_bytes(SM2_NUMWORD, dBC1[1])
      y2 == big_to_bytes(SM2_NUMWORD, dBC1[2])
      klen == Clen - SM2_NUMWORD * 3
      m1 == M \o SM3_KDF(x2 \o y2, klen)
      t == ReadBytes(m1, 0, klen)
      out == [j \in 1 .. klen |-> Xor(t[j], C[SM2_NUMWORD * 3 + j])]
      m2 == memcpy(m1, 0, out, klen)
      ops1 == <<"epoint_set C1", "Test_Point">>
      ops2 == ops1 \o <<"ecurve_mult h C1">>
      ops3 == ops2 \o <<"ecurve_mult d C1", "SM3_KDF", "Test_Null">>
      ops4 == ops3 \o <<"write M", "SM3", "memcmp C3">>
  IN  IF i # 0
      THEN [ret |-> i, M |-> M, ops |-> ops1]
      ELSE IF point_at_infinity(S)
           THEN [ret |-> ENC_ERR_INFINITY_POINT, M |-> M, ops |-> ops2]
           ELSE IF Test_Null(t, klen) # 0
                THEN [ret |-> ERR_ARRAY_NULL, M |-> m1, ops |-> ops3]
                ELSE [ret |-> 0, M |-> m2, ops |-> ops4]

SM2_Decrypt(dB, C, Clen, M) ==
  LET C1x == bytes_to_big(SubSeq(C, 1, SM2_NUMWORD))
      C1y == bytes_to_big(SubSeq(C, SM2_NUMWORD + 1, SM2_NUMWORD * 2))
      C1 == epoint_set(C1x, C1y, epoint_init).pt
      i == ENC_Test_Point(C1)
      S == ecurve_mult(SM2_h, C1)
      dBC1 == epoint_get(ecurve_mult(dB, C1))
      x2 == big_to_bytes(SM2_NUMWORD, dBC1[1])
      y2 == big_to_bytes(SM2_NUMWORD, dBC1[2])
      klen == Clen - SM2_NUMWORD * 3
      m1 == M \o SM3_KDF(x2 \o y2, klen)
      t == ReadBytes(m1, 0, klen)
      out == [j \in 1 .. klen |-> Xor(t[j], C[SM2_NUMWORD * 3 + j])]
      m2 == memcpy(m1, 0, out, klen)
      hash == SM3_done(SM3_process(SM3_process(SM3_process(SM3_init, x2), out), y2))
      ops1 == <<"epoint_set C1", "Test_Point">>
      ops2 == ops1 \o <<"ecurve_mult h C1">>
      ops3 == ops2 \o <<"ecurve_mult d C1", "SM3_KDF", "Test_Null">>
      ops4 == ops3 \o <<"write M", "SM3", "memcmp C3">>
  IN  IF i # 0
      THEN [ret |-> i, M |-> M, ops |-> ops1]
      ELSE IF point_at_infinity(S)
           THEN [ret |-> ENC_ERR_INFINITY_POINT, M |-> M, ops |-> ops2]
           ELSE IF Test_Null(t, klen) # 0
                THEN [ret |-> ERR_ARRAY_NULL, M |-> m1, ops |-> ops3]
                ELSE IF hash # SubSeq(C, SM2_NUMWORD * 2 + 1, SM2_NUMWORD * 3)
                     THEN [ret |-> ERR_C3_MATCH, M |-> m2, ops |-> ops4]
                     ELSE [ret |-> 0, M |-> m2, ops |-> ops4]

(***************************************************************************)
(* SM4.c.  A 32-bit word is the tuple of its four bytes, most significant   *)
(* first.  SM4.h (the S-box, FK, CK and the rotation macro) is not part of  *)
(* the sources; the tables are those of the SM4 standard.                   *)
(***************************************************************************)
SM4_Sbox ==
  <<214, 144, 233, 254, 204, 225, 61, 183, 22, 182, 20, 194, 40, 251, 44, 5,
     43, 103, 154, 118, 42, 190, 4, 195, 170, 68, 19, 38, 73, 134, 6, 153,
     156, 66, 80, 244, 145, 239, 152, 122, 51, 84, 11, 67, 237, 207, 172, 98,
     228, 179, 28, 169, 201, 8, 232, 149, 128, 223, 148, 250, 117, 143, 63, 166,
     71, 7, 167, 252, 243, 115, 23, 186, 131, 89, 60, 25, 230, 133, 79, 168,
     104, 107, 129, 178, 113, 100, 218, 139, 248, 235, 15, 75, 112, 86, 157, 53,
     30, 36, 14, 94, 99, 88, 209, 162, 37, 34, 124, 59, 1, 33, 120, 135,
     212, 0, 70, 87, 159, 211, 39, 82, 76, 54, 2, 231, 160, 196, 200, 158,
     234, 191, 138, 210, 64, 199, 56, 181, 163, 247, 242, 206, 249, 97, 21, 161,
     224, 174, 93, 164, 155, 52, 26, 85, 173, 147, 50, 48, 245, 140, 177, 227,
     29, 246, 226, 46, 130, 102, 202, 96, 192, 41, 35, 171, 13, 83, 78, 111,
     213, 219, 55, 69, 222, 253, 142, 47, 3, 255, 106, 114, 109, 108, 91, 81,
     141, 27, 175, 146, 187, 221, 188, 127, 17, 217, 92, 65, 31, 16, 90, 216,
     10, 193, 49, 136, 165, 205, 123, 189, 45, 116, 208, 18, 184, 229, 180, 176,
     137, 105, 151, 74, 12, 150, 119, 126, 101, 185, 241, 9, 197, 110, 198, 132,
     24, 240, 125, 236, 58, 220, 77, 32, 121, 238, 95, 62, 215, 203, 57, 72>>

SM4_FK ==
  <<<<163, 177, 186, 198>>, <<86, 170, 51, 80>>,
    <<103, 125, 145, 151>>, <<178, 112, 34, 220>>>>

SM4_CK(i) ==
  <<(28 * i) % 256, (28 * i + 7) % 256, (28 * i + 14) % 256, (28 * i + 21) % 256>>

Xor32(a, b) == <<Xor(a[1], b[1]), Xor(a[2], b[2]), Xor(a[3], b[3]), Xor(a[4], b[4])>>

Pow2(e) == IF e = 0 THEN 1 ELSE IF e = 1 THEN 2 ELSE IF e = 2 THEN 4
           ELSE IF e = 3 THEN 8 ELSE IF e = 4 THEN 16 ELSE IF e = 5 THEN 32
           ELSE IF e = 6 THEN 64 ELSE IF e = 7 THEN 128 ELSE 256

\* Byte j of x rotated left by n bits, 0 < n < 32.
RotlByte(x, n, j) ==
  LET q == n \div 8
      r == n % 8
      hi == x[((j - 1 + q) % 4) + 1]
      lo == x[((j + q) % 4) + 1]
  IN  ((hi * Pow2(r)) % 256) + (lo \div Pow2(8 - r))

SM4_Rotl32(x, n) ==
  <<RotlByte(x, n, 1), RotlByte(x, n, 2), RotlByte(x, n, 3), RotlByte(x, n, 4)>>

\* (b[4i] << 24) | (b[4i+1] << 16) | (b[4i+2] << 8) | b[4i+3], i from 0.
SM4_Load(b, i) == <<b[4 * i + 1], b[4 * i + 2], b[4 * i + 3], b[4 * i + 4]>>

SM4_NonLinear(tmp) ==
  <<SM4_Sbox[tmp[1] + 1], SM4_Sbox[tmp[2] + 1], SM4_Sbox[tmp[3] + 1], SM4_Sbox[tmp[4] + 1]>>

\* K and X are kept as sequences: K[i] of the source is K[i + 1] here.
SM4_KeyRound(K, i) ==
  LET tmp == Xor32(Xor32(Xor32(K[i + 2], K[i + 3]), K[i + 4]), SM4_CK(i))
      buf == SM4_NonLinear(tmp)
  IN  Append(K, Xor32(K[i + 1], Xor32(Xor32(buf, SM4_Rotl32(buf, 13)), SM4_Rotl32(buf, 23))))

RECURSIVE SM4_KeyLoop(_, _)
SM4_KeyLoop(K, i) == IF i < 32 /\ Len(K) = i + 4 THEN SM4_KeyLoop(SM4_KeyRound(K, i), i + 1) ELSE K

SM4_KeySchedule(MK) ==
  LET K == SM4_KeyLoop(<<Xor32(SM4_FK[1], SM4_Load(MK, 0)), Xor32(SM4_FK[2], SM4_Load(MK, 1)),
                         Xor32(SM4_FK[3], SM4_Load(MK, 2)), Xor32(SM4_FK[4], SM4_Load(MK, 3))>>, 0)
  IN  SubSeq(K, 5, 36)

SM4_Round(X, i, rki) ==
  LET tmp == Xor32(Xor32(Xor32(X[i + 2], X[i + 3]), X[i + 4]), rki)
      buf == SM4_NonLinear(tmp)
  IN  Append(X, Xor32(X[i + 1],
                  Xor32(Xor32(Xor32(Xor32(buf, SM4_Rotl32(buf, 2)), SM4_Rotl32(buf, 10)),
                              SM4_Rotl32(buf, 18)), SM4_Rotl32(buf, 24))))

RECURSIVE SM4_EncLoop(_, _, _)
SM4_EncLoop(X, rk, i) ==
  IF i < 32 /\ Len(X) = i + 4 THEN SM4_EncLoop(SM4_Round(X, i, rk[i + 1]), rk, i + 1) ELSE X

\* The decryption rounds taking the round keys in the order of encryption.
RECURSIVE SM4_DecLoop_Forward(_, _, _)
SM4_DecLoop_Forward(X, rk, i) ==
  IF i < 32 /\ Len(X) = i + 4
  THEN SM4_DecLoop_Forward(SM4_Round(X, i, rk[i + 1]), rk, i + 1)
  ELSE X

RECURSIVE SM4_DecLoop(_, _, _)
SM4_DecLoop(X, rk, i) ==
  IF i < 32 /\ Len(X) = i + 4 THEN SM4_DecLoop(SM4_Round(X, i, rk[(31 - i) + 1]), rk, i + 1) ELSE X

SM4_Store(X) == X[36] \o X[35] \o X[34] \o X[33]

SM4_Encrypt(MK, PlainText) ==
  LET rk == SM4_KeySchedule(MK)
      X == SM4_EncLoop(<<SM4_Load(PlainText, 0), SM4_Load(PlainText, 1),
                         SM4_Load(PlainText, 2), SM4_Load(PlainText, 3)>>, rk, 0)
  IN  [CipherText |-> SM4_Store(X), X |-> X, rk |-> rk]

SM4_Decrypt(MK, CipherText) ==
  LET rk == SM4_KeySchedule(MK)
      X == SM4_DecLoop(<<SM4_Load(CipherText, 0), SM4_Load(CipherText, 1),
                         SM4_Load(CipherText, 2), SM4_Load(CipherText, 3)>>, rk, 0)
  IN  [PlainText |-> SM4_Store(X), X |-> X, rk |-> rk]

(***************************************************************************)
(* ZUC.c.  A 32-bit word is the tuple of its four bytes, most significant   *)
(* first, and every operation on unsigned int is taken modulo 2^32.         *)
(* ZUC.h (ZUC_S0, ZUC_S1, ZUC_d and the macros ZUC_rotl32 and ZUC_LinkToS)  *)
(* is not part of the sources; the tables are those of the ZUC standard.    *)
(***************************************************************************)
ZUC_S0 ==
  <<62, 114, 91, 71, 202, 224, 0, 51, 4, 209, 84, 152, 9, 185, 109, 203,
    123, 27, 249, 50, 175, 157, 106, 165, 184, 45, 252, 29, 8, 83, 3, 144,
    77, 78, 132, 153, 228, 206, 217, 145, 221, 182, 133, 72, 139, 41, 110, 172,
    205, 193, 248, 30, 115, 67, 105, 198, 181, 189, 253, 57, 99, 32, 212, 56,
    118, 125, 178, 167, 207, 237, 87, 197, 243, 44, 187, 20, 33, 6, 85, 155,
    227, 239, 94, 49, 79, 127, 90, 164, 13, 130, 81, 73, 95, 186, 88, 28,
    74, 22, 213, 23, 168, 146, 36, 31, 140, 255, 216, 174, 46, 1, 211, 173,
    59, 75, 218, 70, 235, 201, 222, 154, 143, 135, 215, 58, 128, 111, 47, 200,
    177, 180, 55, 247, 10, 34, 19, 40, 124, 204, 60, 137, 199, 195, 150, 86,
    7, 191, 126, 240, 11, 43, 151, 82, 53, 65, 121, 97, 166, 76, 16, 254,
    188, 38, 149, 136, 138, 176, 163, 251, 192, 24, 148, 242, 225, 229, 233, 93,
    208, 220, 17, 102, 100, 92, 236, 89, 66, 117, 18, 245, 116, 156, 170, 35,
    14, 134, 171, 190, 42, 2, 231, 103, 230, 68, 162, 108, 194, 147, 159, 241,
    246, 250, 54, 210, 80, 104, 158, 98, 113, 21, 61, 214, 64, 196, 226, 15,
    142, 131, 119, 107, 37, 5, 63, 12, 48, 234, 112, 183, 161, 232, 169, 101,
    141, 39, 26, 219, 129, 179, 160, 244, 69, 122, 25, 223, 238, 120, 52, 96>>

ZUC_S1 ==
  <<85, 194, 99, 113, 59, 200, 71, 134, 159, 60, 218, 91, 41, 170, 253, 119,
    140, 197, 148, 12, 166, 26, 19, 0, 227, 168, 22, 114, 64, 249, 248, 66,
    68, 38, 104, 150, 129, 217, 69, 62, 16, 118, 198, 167, 139, 57, 67, 225,
    58, 181, 86, 42, 192, 109, 179, 5, 34, 102, 191, 220, 11, 250, 98, 72,
    221, 32, 17, 6, 54, 201, 193, 207, 246, 39, 82, 187, 105, 245, 212, 135,
    127, 132, 76, 210, 156, 87, 164, 188, 79, 154, 223, 254, 214, 141, 122, 235,
    43, 83, 216, 92, 161, 20, 23, 251, 35, 213, 125, 48, 103, 115, 8, 9,
    238, 183, 112, 63, 97, 178, 25, 142, 78, 229, 75, 147, 143, 93, 219, 169,
    173, 241, 174, 46, 203, 13, 252, 244, 45, 70, 110, 29, 151, 232, 209, 233,
    77, 55, 165, 117, 94, 131, 158, 171, 130, 157, 185, 28, 224, 205, 73, 137,
    1, 182, 189, 88, 36, 162, 95, 56, 120, 153, 21, 144, 80, 184, 149, 228,
    208, 145, 199, 206, 237, 15, 180, 111, 160, 204, 240, 2, 74, 121, 195, 222,
    163, 239, 234, 81, 230, 107, 24, 236, 27, 44, 128, 247, 116, 231, 255, 33,
    90, 106, 84, 30, 65, 49, 146, 53, 196, 51, 7, 10, 186, 126, 14, 52,
    136, 177, 152, 124, 243, 61, 96, 108, 123, 202, 211, 31, 50, 101, 4, 40,
    100, 190, 133, 155, 47, 89, 138, 215, 176, 37, 172, 175, 18, 3, 226, 242>>

ZUC_d ==
  <<17623, 9916, 25195, 4958, 22409, 13794, 28981, 2479, 19832, 12051, 27588, 6897, 24102, 15437, 30874, 18348>>

And32(a, b) == <<And(a[1], b[1]), And(a[2], b[2]), And(a[3], b[3]), And(a[4], b[4])>>

Or32(a, b) == <<Or(a[1], b[1]), Or(a[2], b[2]), Or(a[3], b[3]), Or(a[4], b[4])>>

ByteAt(x, j) == IF j >= 1 /\ j <= 4 THEN x[j] ELSE 0

\* x << k and x >> k on unsigned int, 0 <= k < 32.
ShlByte(x, k, j) ==
  ((ByteAt(x, j + (k \div 8)) * Pow2(k % 8)) % 256)
    + (ByteAt(x, j + (k \div 8) + 1) \div Pow2(8 - (k % 8)))

Shl32(x, k) == <<ShlByte(x, k, 1), ShlByte(x, k, 2), ShlByte(x, k, 3), ShlByte(x, k, 4)>>

ShrByte(x, k, j) ==
  ((ByteAt(x, j - (k \div 8) - 1) * Pow2(8 - (k % 8))) % 256)
    + (ByteAt(x, j - (k \div 8)) \div Pow2(k % 8))

Shr32(x, k) == <<ShrByte(x, k, 1), ShrByte(x, k, 2), ShrByte(x, k, 3), ShrByte(x, k, 4)>>

\* a + b on unsigned int.
Add32(a, b) ==
  LET s4 == a[4] + b[4]
      s3 == a[3] + b[3] + (s4 \div 256)
      s2 == a[2] + b[2] + (s3 \div 256)
      s1 == a[1] + b[1] + (s2 \div 256)
  IN  <<s1 % 256, s2 % 256, s3 % 256, s4 % 256>>

ZUC_rotl32(x, n) ==
  <<RotlByte(x, n, 1), RotlByte(x, n, 2), RotlByte(x, n, 3), RotlByte(x, n, 4)>>

\* (a << 23) | (b << 8) | c
ZUC_LinkToS(a, b, c) ==
  <<a \div 2, ((a % 2) * 128) + (b \div 256), b % 256, c>>

\* AddMod with bit 31 cleared and no 1 added for it.
AddMod_Mask(a, b) == And32(Add32(a, b), <<127, 255, 255, 255>>)

\* AddMod without the folding of bit 31.
AddMod_NoFold(a, b) == Add32(a, b)

AddMod(a, b) ==
  LET c == Add32(a, b)
  IN  IF Shr32(c, 31) # <<0, 0, 0, 0>>
      THEN Add32(And32(c, <<127, 255, 255, 255>>), <<0, 0, 0, 1>>)
      ELSE c

PowMod(x, k) == And32(Or32(Shl32(x, k), Shr32(x, 31 - k)), <<127, 255, 255, 255>>)

L1(X) ==
  Xor32(Xor32(Xor32(Xor32(X, ZUC_rotl32(X, 2)), ZUC_rotl32(X, 10)), ZUC_rotl32(X, 18)),
        ZUC_rotl32(X, 24))

L2(X) ==
  Xor32(Xor32(Xor32(Xor32(X, ZUC_rotl32(X, 8)), ZUC_rotl32(X, 14)), ZUC_rotl32(X, 22)),
        ZUC_rotl32(X, 30))

\* LFSR_S[i] of the source is LFSR_S[i + 1] here.
LFSR_v(LFSR_S) ==
  AddMod(AddMod(AddMod(AddMod(AddMod(LFSR_S[1], PowMod(LFSR_S[16], 15)),
                              PowMod(LFSR_S[14], 17)),
                       PowMod(LFSR_S[11], 21)),
                PowMod(LFSR_S[5], 20)),
         PowMod(LFSR_S[1], 8))

\* The shift with s15 stored as it is, zero included.
LFSR_shift_Plain(LFSR_S, s15) == Append(Tail(LFSR_S), s15)

LFSR_shift(LFSR_S, s15) ==
  Append(Tail(LFSR_S), IF s15 = <<0, 0, 0, 0>> THEN <<127, 255, 255, 255>> ELSE s15)

LFSRWithInitMode(LFSR_S, u) == LFSR_shift(LFSR_S, AddMod(LFSR_v(LFSR_S), u))

LFSRWithWorkMode(LFSR_S) == LFSR_shift(LFSR_S, LFSR_v(LFSR_S))

\* 0x7fff8000 is <<127, 255, 128, 0>> and 0x0000ffff is <<0, 0, 255, 255>>.
BR(LFSR_S) ==
  LET H(x) == And32(x, <<127, 255, 128, 0>>)
      L(x) == And32(x, <<0, 0, 255, 255>>)
  IN  <<Or32(Shl32(H(LFSR_S[16]), 1), L(LFSR_S[15])),
        Or32(Shl32(L(LFSR_S[12]), 16), Shr32(H(LFSR_S[10]), 15)),
        Or32(Shl32(L(LFSR_S[8]), 16), Shr32(H(LFSR_S[6]), 15)),
        Or32(Shl32(L(LFSR_S[3]), 16), Shr32(H(LFSR_S[1]), 15))>>

ZUC_S(x) == <<ZUC_S0[x[1] + 1], ZUC_S1[x[2] + 1], ZUC_S0[x[3] + 1], ZUC_S1[x[4] + 1]>>

\* F returns W and leaves the new R1, R2 in F_R.
F(BR_X, F_R) ==
  LET W == Add32(Xor32(BR_X[1], F_R[1]), F_R[2])
      W1 == Add32(F_R[1], BR_X[2])
      W2 == Xor32(F_R[2], BR_X[3])
  IN  [W |-> W,
       F_R |-> <<ZUC_S(L1(Or32(Shl32(W1, 16), Shr32(W2, 16)))),
                 ZUC_S(L2(Or32(Shl32(W2, 16), Shr32(W1, 16))))>>]

ZUC_InitStep(st) ==
  LET X == BR(st.LFSR_S)
      f == F(X, st.F_R)
  IN  [LFSR_S |-> LFSRWithInitMode(st.LFSR_S, Shr32(f.W, 1)),
       BR_X |-> X,
       F_R |-> f.F_R,
       count |-> st.count - 1]

RECURSIVE ZUC_InitLoop(_)
ZUC_InitLoop(st) == IF st.count # 0 THEN ZUC_InitLoop(ZUC_InitStep(st)) ELSE st

\* ZUC_Init up to its loop: the cells loaded, R1 = R2 = 0, count = 32.
\* BR_X holds no value before the first BR; zero words stand for it.
ZUC_Loaded(k, iv) ==
  [LFSR_S |-> [i \in 1 .. 16 |-> ZUC_LinkToS(k[i], ZUC_d[i], iv[i])],
   BR_X |-> <<<<0, 0, 0, 0>>, <<0, 0, 0, 0>>, <<0, 0, 0, 0>>, <<0, 0, 0, 0>>>>,
   F_R |-> <<<<0, 0, 0, 0>>, <<0, 0, 0, 0>>>>,
   count |-> 32]

ZUC_Init(k, iv) == ZUC_InitLoop(ZUC_Loaded(k, iv))

\* The first round of ZUC_Work storing its output as a key stream word.
ZUC_WorkFirst_Emit(st) ==
  LET X == BR(st.LFSR_S)
      f == F(X, st.F_R)
  IN  [LFSR_S |-> LFSRWithWorkMode(st.LFSR_S),
       BR_X |-> X,
       F_R |-> f.F_R,
       pKeyStream |-> <<Xor32(f.W, X[4])>>,
       i |-> 0]

ZUC_WorkFirst(st) ==
  LET X == BR(st.LFSR_S)
      f == F(X, st.F_R)
  IN  [LFSR_S |-> LFSRWithWorkMode(st.LFSR_S),
       BR_X |-> X,
       F_R |-> f.F_R,
       pKeyStream |-> <<>>,
       i |-> 0]

ZUC_WorkStep(st) ==
  LET X == BR(st.LFSR_S)
      f == F(X, st.F_R)
  IN  [LFSR_S |-> LFSRWithWorkMode(st.LFSR_S),
       BR_X |-> X,
       F_R |-> f.F_R,
       pKeyStream |-> Append(st.pKeyStream, Xor32(f.W, X[4])),
       i |-> st.i + 1]

\* The loop of ZUC_Work filling pKeyStream from its end: word i is stored
\* at KeyStreamLen - 1 - i.
RECURSIVE ZUC_WorkLoop_Back(_, _)
ZUC_WorkLoop_Back(st, KeyStreamLen) ==
  IF st.i < KeyStreamLen
  THEN LET n == ZUC_WorkStep(st)
       IN  ZUC_WorkLoop_Back([n EXCEPT !.pKeyStream =
                                <<n.pKeyStream[Len(n.pKeyStream)]>> \o st.pKeyStream],
                             KeyStreamLen)
  ELSE st

RECURSIVE ZUC_WorkLoop(_, _)
ZUC_WorkLoop(st, KeyStreamLen) ==
  IF st.i < KeyStreamLen THEN ZUC_WorkLoop(ZUC_WorkStep(st), KeyStreamLen) ELSE st

ZUC_Work(LFSR_S, BR_X, F_R, KeyStreamLen) ==
  ZUC_WorkLoop(ZUC_WorkFirst([LFSR_S |-> LFSR_S, BR_X |-> BR_X, F_R |-> F_R]), KeyStreamLen)

ZUC_GenKeyStream(k, iv, KeyStreamLen) ==
  LET st == ZUC_Init(k, iv)
  IN  ZUC_Work(st.LFSR_S, st.BR_X, st.F_R, KeyStreamLen)

ZUC_iv(COUNT, BEARER, DIRECTION) ==
  LET iv4 == And(Or((BEARER * 8) % 256, DIRECTION * 4), 252)
  IN  <<COUNT[1], COUNT[2], COUNT[3], COUNT[4], iv4, 0, 0, 0,
        COUNT[1], COUNT[2], COUNT[3], COUNT[4], iv4, 0, 0, 0>>

\* OBS = IBS ^ k with the high t bits of the last word cleared instead.
ZUC_Mask_Left(IBS, k, L, t) ==
  [i \in 1 .. L |->
     IF i = L /\ t # 0
     THEN Shr32(Shl32(Xor32(IBS[i], k[i]), t), t)
     ELSE Xor32(IBS[i], k[i])]

\* OBS = IBS ^ k with the low 32 - t bits of the last word cleared, t # 0.
ZUC_Mask(IBS, k, L, t) ==
  [i \in 1 .. L |->
     IF i = L /\ t # 0
     THEN Shl32(Shr32(Xor32(IBS[i], k[i]), 32 - t), 32 - t)
     ELSE Xor32(IBS[i], k[i])]

\* ZUC_Confidentiality without the clearing of the last word's spare bits.
ZUC_Confidentiality_NoMask(CK, COUNT, BEARER, DIRECTION, IBS, LENGTH) ==
  LET L == (LENGTH + 31) \div 32
  IN  CHOOSE OBS \in {ZUC_Mask(IBS, k, L, 0) :
                        k \in {ZUC_GenKeyStream(CK, ZUC_iv(COUNT, BEARER, DIRECTION), L).pKeyStream}} :
        TRUE

\* The key stream k is generated once, by the one call of ZUC_GenKeyStream.
ZUC_Confidentiality(CK, COUNT, BEARER, DIRECTION, IBS, LENGTH) ==
  LET L == (LENGTH + 31) \div 32
      t == LENGTH % 32
  IN  CHOOSE OBS \in {ZUC_Mask(IBS, k, L, t) :
                        k \in {ZUC_GenKeyStream(CK, ZUC_iv(COUNT, BEARER, DIRECTION), L).pKeyStream}} :
        TRUE

(***************************************************************************)
(* ZUC.c: the integrity algorithm.  An array read records the index it     *)
(* uses; a read past the end of the array has no defined value, so          *)
(* WordAt gives the zero word there and the caller of ZUC_Integrity treats *)
(* the MAC of such a call as arbitrary.                                      *)
(***************************************************************************)
Word0 == <<0, 0, 0, 0>>

Word1 == <<0, 0, 0, 1>>

WordAt(arr, j) == IF j < Len(arr) THEN arr[j + 1] ELSE Word0

\* GetWord without the m == 0 case: k[j + 1] is read for every i.
GetWord_Always(k, i) ==
  LET j == i \div 32
      m == i % 32
  IN  [word |-> Or32(Shl32(WordAt(k, j), m),
                     IF m = 0 THEN Word0 ELSE Shr32(WordAt(k, j + 1), 32 - m)),
       idx  |-> {j, j + 1}]

\* BitValue counting the bits of a word from its least significant end.
BitValue_Low(M, i) ==
  LET j == i \div 32
      k == i % 32
  IN  [bit |-> IF And32(WordAt(M, j), Shl32(Word1, k)) # Word0 THEN 1 ELSE 0,
       idx |-> j]

\* The i-th bit of M, and the index of the word of M it is read from.
BitValue(M, i) ==
  LET j == i \div 32
      k == i % 32
  IN  [bit |-> IF And32(WordAt(M, j), Shl32(Word1, 31 - k)) # Word0 THEN 1 ELSE 0,
       idx |-> j]

\* The 32 bits of k from bit i on, and the indices of the words of k read.
GetWord(k, i) ==
  LET j == i \div 32
      m == i % 32
  IN  IF m = 0
      THEN [word |-> WordAt(k, j), idx |-> {j}]
      ELSE [word |-> Or32(Shl32(WordAt(k, j), m), Shr32(WordAt(k, j + 1), 32 - m)),
            idx  |-> {j, j + 1}]

\* iv of ZUC_Integrity; COUNT is given by its four bytes, high byte first.
ZUC_Integrity_iv(COUNT, BEARER, DIRECTION) ==
  LET iv4 == (BEARER * 8) % 256
  IN  <<COUNT[1], COUNT[2], COUNT[3], COUNT[4], iv4, 0, 0, 0,
        Xor(COUNT[1], (DIRECTION * 128) % 256), COUNT[2], COUNT[3], COUNT[4], iv4, 0,
        Xor(0, (DIRECTION * 128) % 256), 0>>

\* for (i = 0; i < LENGTH; i++) if (BitValue(M, i)) T ^= GetWord(k, i);
RECURSIVE ZUC_Integrity_Loop(_, _, _, _, _)
ZUC_Integrity_Loop(M, k, LENGTH, i, T) ==
  IF i >= LENGTH
  THEN T
  ELSE CHOOSE r \in {ZUC_Integrity_Loop(M, k, LENGTH, i + 1, t) :
                       t \in {IF BitValue(M, i).bit = 1
                               THEN Xor32(T, GetWord(k, i).word)
                               ELSE T}} :
         TRUE

\* The body of ZUC_Integrity once the key stream k of L words is generated.
ZUC_Integrity_Body(M, k, LENGTH, L) ==
  [MAC   |-> Xor32(Xor32(ZUC_Integrity_Loop(M, k, LENGTH, 0, Word0), GetWord(k, LENGTH).word),
                   GetWord(k, 32 * (L - 1)).word),
   L     |-> L,
   kRead |-> UNION ({GetWord(k, i).idx : i \in {b \in 0 .. LENGTH - 1 : BitValue(M, b).bit = 1}}
                    \cup {GetWord(k, LENGTH).idx, GetWord(k, 32 * (L - 1)).idx}),
   mRead |-> {BitValue(M, i).idx : i \in 0 .. LENGTH - 1}]

ZUC_Integrity(IK, COUNT, BEARER, DIRECTION, M, LENGTH) ==
  LET L == ((LENGTH + 31) \div 32) + 2
  IN  CHOOSE r \in {ZUC_Integrity_Body(M, k, LENGTH, L) :
                      k \in {ZUC_GenKeyStream(IK, ZUC_Integrity_iv(COUNT, BEARER, DIRECTION),
                                              L).pKeyStream}} :
        TRUE

(***************************************************************************)
(* ZUC.c: ZUC_SelfCheck, with the data of its enabled (#if 1) branches.    *)
(* memcmp compares bytes, so an unsigned int array is compared as the      *)
(* bytes the build stores it in; bytes past the end of an array have no    *)
(* defined value, and `past` is what comparing them gives.                 *)
(***************************************************************************)
KeystreamLen == 2
plainlen == 193

Std_Keystream == <<<<39, 190, 222, 116>>, <<1, 128, 130, 218>>>>

SelfCheck_key == <<23, 61, 20, 186, 80, 3, 115, 29, 122, 96, 4, 148, 112, 240, 10, 41>>

SelfCheck_COUNT == <<102, 3, 84, 146>>

SelfCheck_BEARER == 15

SelfCheck_plain ==
  <<<<108, 246, 83, 64>>,
    <<115, 85, 82, 171>>,
    <<12, 151, 82, 250>>,
    <<111, 144, 37, 254>>,
    <<11, 214, 117, 217>>,
    <<0, 88, 117, 178>>,
    <<0, 0, 0, 0>>>>

Std_cipher ==
  <<<<166, 200, 95, 198>>,
    <<106, 251, 133, 51>>,
    <<170, 252, 37, 24>>,
    <<223, 231, 132, 148>>,
    <<14, 225, 228, 176>>,
    <<48, 35, 140, 200>>,
    <<0, 0, 0, 0>>>>

Std_MAC == <<200, 169, 89, 94>>

\* The bytes of an unsigned int array in memory.
ArrayBytes(arr, endian) ==
  [i \in 1 .. (4 * Len(arr)) |->
     IF endian = "big"
     THEN arr[((i - 1) \div 4) + 1][((i - 1) % 4) + 1]
     ELSE arr[((i - 1) \div 4) + 1][4 - ((i - 1) % 4)]]

\* memcmp(a, b, n) on two arrays of the same size: 0 when the n bytes are equal.
ZUC_memcmp(a, b, n, past) ==
  IF \E i \in 1 .. n : i <= Len(a) /\ a[i] # b[i] THEN 1
  ELSE IF n > Len(a) THEN past
  ELSE 0

\* The three comparisons of ZUC_SelfCheck, on the buffers the three calls
\* left: Keystream, cipher and MAC.
ZUC_SelfCheck(Keystream, cipher, MAC, build) ==
  IF ZUC_memcmp(ArrayBytes(Keystream, build.endian), ArrayBytes(Std_Keystream, build.endian),
                KeystreamLen * 8, build.past) # 0
  THEN 1
  ELSE IF ZUC_memcmp(ArrayBytes(cipher, build.endian), ArrayBytes(Std_cipher, build.endian),
                     (plainlen + 31) \div 32, build.past) # 0
  THEN 1
  ELSE IF MAC # Std_MAC THEN 1
  ELSE 0

(***************************************************************************)
(* SM2 key exchange (SM2_KEY_EX.h).  The header declares the four steps;   *)
(* their bodies are modelled from section 4.7 of the specification, on the *)
(* curve backend, SM3 and SM3_KDF above.                                   *)
(***************************************************************************)
ERR_KEYEX_RA == 6
ERR_KEYEX_RB == 7
ERR_EQUAL_S1SB == 8
ERR_EQUAL_S2SA == 9

RECURSIVE BitLength(_)
BitLength(x) == IF x = 0 THEN 0 ELSE 1 + BitLength(x \div 2)

\* w = ceil(ceil(log2 n) / 2) - 1.
SM2_W(n) == ((BitLength(n - 1) + 1) \div 2) - 1

\* 2^w + (x mod 2^w), for the x coordinate of the point R.
KeyEx_xbar(R) ==
  LET w == SM2_W(SM2_n)
  IN  Pow2(w) + (epoint_get(R)[1] % Pow2(w))

KeyEx_X(P) == big_to_bytes(SM2_NUMWORD, epoint_get(P)[1])

KeyEx_Y(P) == big_to_bytes(SM2_NUMWORD, epoint_get(P)[2])

\* SM3(tag || y || SM3(x || ZA || ZB || xRA || yRA || xRB || yRB)), (x, y) = UV.
KeyEx_S(tag, UV, ZA, ZB, RA, RB) ==
  SM3_256(<<tag>> \o KeyEx_Y(UV) \o
          SM3_256(KeyEx_X(UV) \o ZA \o ZB \o KeyEx_X(RA) \o KeyEx_Y(RA) \o
                  KeyEx_X(RB) \o KeyEx_Y(RB)))

\* KDF(x || y || ZA || ZB, klen), (x, y) = UV, written to K.
KeyEx_K(UV, ZA, ZB, klen) == SM3_KDF(KeyEx_X(UV) \o KeyEx_Y(UV) \o ZA \o ZB, klen)

SM2_KeyEx_Init_I(ra) == [ret |-> 0, RA |-> ecurve_mult(ra, G)]

SM2_KeyEx_Re_I(rb, dB, RA, PA, ZA, ZB, klen) ==
  LET RB == ecurve_mult(rb, G)
      tB == (dB + KeyEx_xbar(RB) * rb) % SM2_n
      V == ecurve_mult(SM2_h, ecurve_mult(tB, ecurve_add(PA, ecurve_mult(KeyEx_xbar(RA), RA))))
      fail(code) == [ret |-> code, K |-> NoWrites, RB |-> RB, V |-> Infinity, hash |-> <<>>]
  IN  IF ENC_Test_Point(RA) # 0 THEN fail(ERR_KEYEX_RA)
      ELSE IF point_at_infinity(V) THEN fail(ENC_ERR_INFINITY_POINT)
      ELSE [ret |-> 0,
            K |-> KeyEx_K(V, ZA, ZB, klen),
            RB |-> RB,
            V |-> V,
            hash |-> KeyEx_S(2, V, ZA, ZB, RA, RB)]

\* Init-II with U computed from the initiator's own x-bar instead of the
\* responder's.
SM2_KeyEx_Init_II_OwnXbar(ra, dA, RA, RB, PB, ZA, ZB, SB, klen) ==
  LET tA == (dA + KeyEx_xbar(RA) * ra) % SM2_n
      U == ecurve_mult(SM2_h, ecurve_mult(tA, ecurve_add(PB, ecurve_mult(KeyEx_xbar(RA), RB))))
      fail(code) == [ret |-> code, K |-> NoWrites, SA |-> <<>>]
  IN  IF ENC_Test_Point(RB) # 0 THEN fail(ERR_KEYEX_RB)
      ELSE IF point_at_infinity(U) THEN fail(ENC_ERR_INFINITY_POINT)
      ELSE IF KeyEx_S(2, U, ZA, ZB, RA, RB) # SB THEN fail(ERR_EQUAL_S1SB)
      ELSE [ret |-> 0,
            K |-> KeyEx_K(U, ZA, ZB, klen),
            SA |-> KeyEx_S(3, U, ZA, ZB, RA, RB)]

SM2_KeyEx_Init_II(ra, dA, RA, RB, PB, ZA, ZB, SB, klen) ==
  LET tA == (dA + KeyEx_xbar(RA) * ra) % SM2_n
      U == ecurve_mult(SM2_h, ecurve_mult(tA, ecurve_add(PB, ecurve_mult(KeyEx_xbar(RB), RB))))
      fail(code) == [ret |-> code, K |-> NoWrites, SA |-> <<>>]
  IN  IF ENC_Test_Point(RB) # 0 THEN fail(ERR_KEYEX_RB)
      ELSE IF point_at_infinity(U) THEN fail(ENC_ERR_INFINITY_POINT)
      ELSE IF KeyEx_S(2, U, ZA, ZB, RA, RB) # SB THEN fail(ERR_EQUAL_S1SB)
      ELSE [ret |-> 0,
            K |-> KeyEx_K(U, ZA, ZB, klen),
            SA |-> KeyEx_S(3, U, ZA, ZB, RA, RB)]

SM2_KeyEx_Re_II(V, RA, RB, ZA, ZB, SA) ==
  IF KeyEx_S(3, V, ZA, ZB, RA, RB) # SA THEN ERR_EQUAL_S2SA ELSE 0

(***************************************************************************)
(* State.  Each family of operations has its own variables and its own     *)
(* specification; the variables of the other families stay at their        *)
(* initial values.                                                         *)
(*   kdf*: one call of SM3_KDF on a fresh buffer.                          *)
(*   sv*:  SM2_sv.c: the key pair, the message, the signature buffers R    *)
(*         and S, and the record of the last call.                         *)
(*   enc*: SM2_ENC.c: the key pair, the message M, the ciphertext buffer   *)
(*         C, the plaintext buffer of SM2_Decrypt, SM2_Encrypt's return     *)
(*         code and the record of the last call.                           *)
(*   sm4*: SM4.c: the key, the three 16-byte buffers of SM4_SelfCheck and  *)
(*         the X arrays of the last SM4_Encrypt and SM4_Decrypt.           *)
(*   zuc*: ZUC.c: the arguments of ZUC_Confidentiality, its output OBS and *)
(*         the output of a second call made on OBS.                        *)
(*   ks*:  ZUC.c: one call of ZUC_GenKeyStream followed round by round:    *)
(*         its arguments, the local arrays LFSR_S, BR_X, F_R with the loop *)
(*         counters and the key stream stored so far, and the rounds run.  *)
(*   mac*: ZUC.c: the arguments of ZUC_Integrity, what the call read and   *)
(*         returned, and a second call on a message with the same first    *)
(*         LENGTH bits.                                                    *)
(*   fn*:  one call of a function on arguments given by the caller: the    *)
(*         function called, its arguments and what it returned.            *)
(*   sc*:  ZUC.c: ZUC_SelfCheck: the buffers Keystream and cipher and the  *)
(*         MAC as the three calls left them, with how the build lays out   *)
(*         and compares them, and the value returned.                      *)
(*   kx*:  the key exchange: the two static key pairs, the random scalars, *)
(*         what the initiator A and the responder B each hold (their own   *)
(*         outputs and the messages as they received them), the return     *)
(*         codes of the steps run so far, and whether every message so far *)
(*         was delivered unmodified.                                       *)
(***************************************************************************)
VARIABLES kdfPc, kdfZ, kdfKlen, kdfK,
          svPc, svD, svPx, svPy, svRand, svMsg, svZA, svR, svS, svHonest, svCall, svInits,
          encPc, encD, encPub, encRand, encM, encC, encOut, encRet, encCall,
          sm4Pc, sm4MK, sm4Plain, sm4Cipher, sm4Out, sm4EncX, sm4DecX,
          zucPc, zucCK, zucCOUNT, zucBEARER, zucDIRECTION, zucLENGTH, zucIBS, zucOBS, zucOut,
          kxPc, kxKeys, kxKlen, kxRa, kxRb, kxA, kxB, kxRet, kxHonest,
          ksPc, ksK, ksIV, ksLen, ksSt, ksRounds,
          macPc, macArgs, macCall, macAgain,
          fnPc, fnIn, fnOut,
          scPc, scGot, scRet

kdfVars == <<kdfPc, kdfZ, kdfKlen, kdfK>>
svVars == <<svPc, svD, svPx, svPy, svRand, svMsg, svZA, svR, svS, svHonest, svCall, svInits>>
encVars == <<encPc, encD, encPub, encRand, encM, encC, encOut, encRet, encCall>>
sm4Vars == <<sm4Pc, sm4MK, sm4Plain, sm4Cipher, sm4Out, sm4EncX, sm4DecX>>
zucVars == <<zucPc, zucCK, zucCOUNT, zucBEARER, zucDIRECTION, zucLENGTH, zucIBS, zucOBS, zucOut>>
kxVars == <<kxPc, kxKeys, kxKlen, kxRa, kxRb, kxA, kxB, kxRet, kxHonest>>
ksVars == <<ksPc, ksK, ksIV, ksLen, ksSt, ksRounds>>
macVars == <<macPc, macArgs, macCall, macAgain>>
fnVars == <<fnPc, fnIn, fnOut>>
scVars == <<scPc, scGot, scRet>>
vars == <<kdfVars, svVars, encVars, sm4Vars, zucVars, kxVars, ksVars, macVars, fnVars, scVars>>

ByteSyms == {0, 255} \cup (1 .. (MaxByteSym - 1))

(***************************************************************************)
(* The initial state: no operation has been called yet.  Buffers a caller  *)
(* has not filled hold 0xAA.                                               *)
(***************************************************************************)
Unset == <<170, 170>>

NoCall == [fn |-> "none", ret |-> 0, ops |-> <<>>, live |-> 0]

Fresh(len) == memcpy(NoWrites, 0, [i \in 1 .. len |-> 170], len)

KxNothing ==
  [RA |-> Infinity, RB |-> Infinity, SB |-> <<>>, SA |-> <<>>, V |-> Infinity,
   K |-> Written(NoWrites)]

KdfInit ==
  /\ kdfPc = "idle"
  /\ kdfZ = <<>>
  /\ kdfKlen = 0
  /\ kdfK = Written(NoWrites)

SvInit ==
  /\ svPc = "start"
  /\ svD = Unset /\ svPx = Unset /\ svPy = Unset /\ svRand = Unset
  /\ svMsg = <<>> /\ svZA = Unset /\ svR = Unset /\ svS = Unset
  /\ svHonest = FALSE
  /\ svCall = NoCall
  /\ svInits = 0

EncInit ==
  /\ encPc = "start"
  /\ encD = 0 /\ encPub = Infinity /\ encRand = Unset
  /\ encM = <<>> /\ encC = Written(NoWrites) /\ encOut = Written(NoWrites)
  /\ encRet = 0
  /\ encCall = NoCall

Sm4Init ==
  /\ sm4Pc = "start"
  /\ sm4MK = <<>> /\ sm4Plain = <<>> /\ sm4Cipher = <<>> /\ sm4Out = <<>>
  /\ sm4EncX = <<>> /\ sm4DecX = <<>>

ZucInit ==
  /\ zucPc = "start"
  /\ zucCK = <<>> /\ zucCOUNT = <<0, 0, 0, 0>> /\ zucBEARER = 0 /\ zucDIRECTION = 0
  /\ zucLENGTH = 0 /\ zucIBS = <<>> /\ zucOBS = <<>> /\ zucOut = <<>>

KxInit ==
  /\ kxPc = "start"
  /\ kxKeys = [dA |-> 0, dB |-> 0, PA |-> Infinity, PB |-> Infinity]
  /\ kxKlen = 0 /\ kxRa = 0 /\ kxRb = 0
  /\ kxA = KxNothing /\ kxB = KxNothing
  /\ kxRet = <<>> /\ kxHonest = TRUE

KsInit ==
  /\ ksPc = "start"
  /\ ksK = <<>> /\ ksIV = <<>> /\ ksLen = 0
  /\ ksSt = [LFSR_S |-> <<>>]
  /\ ksRounds = <<>>

MacNoCall == [MAC |-> Word0, L |-> 0, kRead |-> {}, mRead |-> {}]

MacInit ==
  /\ macPc = "start"
  /\ macArgs = [IK |-> <<>>, COUNT |-> <<0, 0, 0, 0>>, BEARER |-> 0, DIRECTION |-> 0,
                M |-> <<>>, LENGTH |-> 0]
  /\ macCall = MacNoCall
  /\ macAgain = [M |-> <<>>, call |-> MacNoCall]

FnInit == fnPc = "start" /\ fnIn = <<>> /\ fnOut = <<>>

ScInit == scPc = "start" /\ scGot = <<>> /\ scRet = 0

Init == KdfInit /\ SvInit /\ EncInit /\ Sm4Init /\ ZucInit /\ KxInit /\ KsInit /\ MacInit /\ FnInit /\ ScInit

\* The variables each family of operations leaves alone.
kdfRest == <<svVars, encVars, sm4Vars, zucVars, kxVars, ksVars, macVars, fnVars, scVars>>
svRest == <<kdfVars, encVars, sm4Vars, zucVars, kxVars, ksVars, macVars, fnVars, scVars>>
encRest == <<kdfVars, svVars, sm4Vars, zucVars, kxVars, ksVars, macVars, fnVars, scVars>>
sm4Rest == <<kdfVars, svVars, encVars, zucVars, kxVars, ksVars, macVars, fnVars, scVars>>
zucRest == <<kdfVars, svVars, encVars, sm4Vars, kxVars, ksVars, macVars, fnVars, scVars>>
kxRest == <<kdfVars, svVars, encVars, sm4Vars, zucVars, ksVars, macVars, fnVars, scVars>>
ksRest == <<kdfVars, svVars, encVars, sm4Vars, zucVars, kxVars, macVars, fnVars, scVars>>
macRest == <<kdfVars, svVars, encVars, sm4Vars, zucVars, kxVars, ksVars, fnVars, scVars>>
fnRest == <<kdfVars, svVars, encVars, sm4Vars, zucVars, kxVars, ksVars, macVars, scVars>>
scRest == <<kdfVars, svVars, encVars, sm4Vars, zucVars, kxVars, ksVars, macVars, fnVars>>

(***************************************************************************)
(* SM2_sv.c driven as SM2_SelfCheck drives it: SM2_KeyGeneration, then     *)
(* SM2_Sign, then SM2_Verify.  Besides the honest run, a caller may hand   *)
(* SM2_Verify any pair of byte strings as (R, S).                          *)
(***************************************************************************)
\* The number of times SM2_Init was entered during a call with trace ops;
\* svInits counts them over the run.
InitCalls(ops) == Cardinality({w \in DOMAIN ops : ops[w] = "SM2_Init"})

SvMsgs == {m \in UNION {[1 .. l -> ByteSyms] : l \in 0 .. MaxMsgLen} :
             \A i \in 1 .. Len(m) : i > 1 => m[i] = 0}

SvZAs == {<<0, 0>>, <<18, 52>>}

SvKeyGen ==
  /\ svPc = "start"
  /\ \E d \in 0 .. (SM2_n - 2) :
       LET c == SM2_KeyGeneration(big_to_bytes(SM2_NUMWORD, d))
       IN  /\ svD' = big_to_bytes(SM2_NUMWORD, d)
           /\ svPx' = c.Px
           /\ svPy' = c.Py
           /\ svCall' = [fn |-> "SM2_KeyGeneration", ret |-> c.ret, ops |-> c.ops, live |-> 0]
           /\ svInits' = svInits + InitCalls(c.ops)
  /\ svPc' = "keyed"
  /\ UNCHANGED <<svRand, svMsg, svZA, svR, svS, svHonest, svRest>>

SvSign ==
  /\ svPc = "keyed"
  /\ \E k \in 0 .. SM2_n, m \in SvMsgs, za \in SvZAs :
       LET c == SM2_Sign(m, za, big_to_bytes(SM2_NUMWORD, k), svD)
       IN  /\ svRand' = big_to_bytes(SM2_NUMWORD, k)
           /\ svMsg' = m
           /\ svZA' = za
           /\ svR' = IF c.wrote THEN c.R ELSE svR
           /\ svS' = IF c.wrote THEN c.S ELSE svS
           /\ svHonest' = c.wrote
           /\ svCall' = [fn |-> "SM2_Sign", ret |-> c.ret, ops |-> c.ops, live |-> c.live]
           /\ svInits' = svInits + InitCalls(c.ops)
  /\ svPc' = "signed"
  /\ UNCHANGED <<svD, svPx, svPy, svRest>>

SvForge ==
  /\ svPc = "keyed"
  /\ svCall.ret = 0
  /\ \E r \in 0 .. SM2_n, s \in 0 .. SM2_n, m \in SvMsgs :
       /\ svR' = big_to_bytes(SM2_NUMWORD, r)
       /\ svS' = big_to_bytes(SM2_NUMWORD, s)
       /\ svMsg' = m
  /\ svZA' = <<0, 0>>
  /\ svHonest' = FALSE
  /\ svPc' = "signed"
  /\ svCall' = NoCall
  /\ UNCHANGED <<svD, svPx, svPy, svRand, svInits, svRest>>

SvVerify ==
  /\ svPc = "signed"
  /\ LET c == SM2_Verify(svMsg, svZA, svPx, svPy, svR, svS)
     IN  /\ svCall' = [fn |-> "SM2_Verify", ret |-> c.ret, ops |-> c.ops, live |-> c.live]
         /\ svInits' = svInits + InitCalls(c.ops)
  /\ svPc' = "verified"
  /\ UNCHANGED <<svD, svPx, svPy, svRand, svMsg, svZA, svR, svS, svHonest, svRest>>

SvNext == SvKeyGen \/ SvSign \/ SvForge \/ SvVerify

SpecSV == Init /\ [][SvNext]_vars

(***************************************************************************)
(* SM2_ENC.c driven as SM2_ENC_SelfTest drives it: SM2_KeyGeneration, then  *)
(* SM2_Encrypt into a fresh buffer of klen + 3*SM2_NUMWORD bytes, then      *)
(* SM2_Decrypt of that buffer into a fresh buffer of klen bytes.            *)
(***************************************************************************)
EncMsgs == {[i \in 1 .. l |-> b] : l \in 0 .. MaxEncLen, b \in ByteSyms}

EncKeyGen ==
  /\ encPc = "start"
  /\ \E d \in 0 .. (SM2_n - 2) :
       LET c == ENC_SM2_KeyGeneration(d)
       IN  /\ encD' = d
           /\ encPub' = c.pubKey
           /\ encCall' = [fn |-> "SM2_KeyGeneration", ret |-> c.ret, ops |-> c.ops, live |-> 0]
  /\ encPc' = "keyed"
  /\ UNCHANGED <<encRand, encM, encC, encOut, encRet, encRest>>

EncEncrypt ==
  /\ encPc = "keyed"
  /\ \E k \in 0 .. SM2_n, M \in EncMsgs :
       LET c == SM2_Encrypt(big_to_bytes(SM2_NUMWORD, k), encPub, M, Len(M),
                            Fresh(Len(M) + SM2_NUMWORD * 3))
       IN  /\ encRand' = big_to_bytes(SM2_NUMWORD, k)
           /\ encM' = M
           /\ encC' = Written(c.C)
           /\ encRet' = c.ret
           /\ encCall' = [fn |-> "SM2_Encrypt", ret |-> c.ret, ops |-> c.ops, live |-> 0]
  /\ encPc' = "encrypted"
  /\ UNCHANGED <<encD, encPub, encOut, encRest>>

\* A ciphertext altered in transit: one byte of C1, C3 or C2 has some bits
\* flipped before the receiver sees it.
EncFlips == {1, 128}

EncTamper ==
  /\ encPc = "encrypted"
  /\ encRet = 0
  /\ \E pos \in 0 .. (Len(encM) + SM2_NUMWORD * 3 - 1), flip \in EncFlips :
       encC' = [encC EXCEPT ![pos] = Xor(encC[pos], flip)]
  /\ encPc' = "tampered"
  /\ UNCHANGED <<encD, encPub, encRand, encM, encRet, encOut, encCall, encRest>>

EncDecrypt ==
  /\ encPc \in {"encrypted", "tampered"}
  /\ LET Clen == Len(encM) + SM2_NUMWORD * 3
         c == SM2_Decrypt(encD, [i \in 1 .. Clen |-> encC[i - 1]], Clen, Fresh(Len(encM)))
     IN  /\ encOut' = Written(c.M)
         /\ encCall' = [fn |-> "SM2_Decrypt", ret |-> c.ret, ops |-> c.ops, live |-> 0]
  /\ encPc' = IF encPc = "tampered" THEN "decrypted tampered" ELSE "decrypted"
  /\ UNCHANGED <<encD, encPub, encRand, encM, encC, encRet, encRest>>

EncNext == EncKeyGen \/ EncEncrypt \/ EncTamper \/ EncDecrypt

SpecENC == Init /\ [][EncNext]_vars

(***************************************************************************)
(* SM4.c driven as SM4_SelfCheck drives it: SM4_Encrypt of a block, then    *)
(* SM4_Decrypt of the result under the same key.                            *)
(***************************************************************************)
Sm4Std == <<1, 35, 69, 103, 137, 171, 205, 239, 254, 220, 186, 152, 118, 84, 50, 16>>

Sm4Keys == {Sm4Std} \cup {[i \in 1 .. 16 |-> b] : b \in ByteSyms}

Sm4Blocks ==
  {Sm4Std} \cup {[i \in 1 .. 16 |-> IF i = p THEN b ELSE 0] : p \in 1 .. MaxSm4Pos, b \in ByteSyms}

Sm4Encrypt ==
  /\ sm4Pc = "start"
  /\ \E MK \in Sm4Keys, B \in Sm4Blocks :
       LET c == SM4_Encrypt(MK, B)
       IN  /\ sm4MK' = MK
           /\ sm4Plain' = B
           /\ sm4Cipher' = c.CipherText
           /\ sm4EncX' = c.X
  /\ sm4Pc' = "encrypted"
  /\ UNCHANGED <<sm4Out, sm4DecX, sm4Rest>>

Sm4Decrypt ==
  /\ sm4Pc = "encrypted"
  /\ LET c == SM4_Decrypt(sm4MK, sm4Cipher)
     IN  /\ sm4Out' = c.PlainText
         /\ sm4DecX' = c.X
  /\ sm4Pc' = "decrypted"
  /\ UNCHANGED <<sm4MK, sm4Plain, sm4Cipher, sm4EncX, sm4Rest>>

Sm4Next == Sm4Encrypt \/ Sm4Decrypt

SpecSM4 == Init /\ [][Sm4Next]_vars

(***************************************************************************)
(* ZUC.c: ZUC_Confidentiality on an input of ceil(LENGTH / 32) words, then  *)
(* ZUC_Confidentiality again, with the same parameters, on its output.      *)
(***************************************************************************)
ZucKeys == {[i \in 1 .. 16 |-> b] : b \in {0, 255}}

ZucWords == {<<0, 0, 0, 0>>, <<255, 255, 255, 255>>, <<18, 52, 86, 120>>}

ZucLengths == (0 .. MaxZucLen) \cup {31, 32, 33}

ZucEncrypt ==
  /\ zucPc = "start"
  /\ \E CK \in ZucKeys, DIRECTION \in {0, 1}, LENGTH \in ZucLengths, w \in ZucWords :
       LET IBS == [i \in 1 .. ((LENGTH + 31) \div 32) |-> w]
       IN  /\ zucCK' = CK
           /\ zucCOUNT' = <<0, 0, 0, DIRECTION>>
           /\ zucBEARER' = 21 * DIRECTION
           /\ zucDIRECTION' = DIRECTION
           /\ zucLENGTH' = LENGTH
           /\ zucIBS' = IBS
           /\ zucOBS' = ZUC_Confidentiality(CK, <<0, 0, 0, DIRECTION>>, 21 * DIRECTION,
                                              DIRECTION, IBS, LENGTH)
  /\ zucPc' = "encrypted"
  /\ UNCHANGED <<zucOut, zucRest>>

ZucDecrypt ==
  /\ zucPc = "encrypted"
  /\ zucOut' = ZUC_Confidentiality(zucCK, zucCOUNT, zucBEARER, zucDIRECTION, zucOBS, zucLENGTH)
  /\ zucPc' = "decrypted"
  /\ UNCHANGED <<zucCK, zucCOUNT, zucBEARER, zucDIRECTION, zucLENGTH, zucIBS, zucOBS, zucRest>>

ZucNext == ZucEncrypt \/ ZucDecrypt

SpecZUC == Init /\ [][ZucNext]_vars

(***************************************************************************)
(* ZUC.c: ZUC_Integrity on a message of ceil(LENGTH / 32) words, then      *)
(* ZUC_Integrity again, with the same parameters, on a message that has    *)
(* the same first LENGTH bits and other bits after them in its last word.  *)
(***************************************************************************)
MacLengths == ZucLengths \cup {64}

\* The value ZUC_Integrity returns: the MAC it computes when every read is
\* inside its array, any word when a read is outside.
MacReturned(r, M) ==
  IF r.kRead \subseteq 0 .. (r.L - 1) /\ r.mRead \subseteq 0 .. (Len(M) - 1)
  THEN {r}
  ELSE {[r EXCEPT !.MAC = any] : any \in ZucWords}

MacCompute ==
  /\ macPc = "start"
  /\ \E IK \in ZucKeys, DIRECTION \in {0, 1}, LENGTH \in MacLengths, w \in ZucWords :
       LET M == [i \in 1 .. ((LENGTH + 31) \div 32) |-> w]
           COUNT == <<0, 0, 0, DIRECTION>>
           BEARER == 21 * DIRECTION
       IN  /\ macArgs' = [IK |-> IK, COUNT |-> COUNT, BEARER |-> BEARER,
                          DIRECTION |-> DIRECTION, M |-> M, LENGTH |-> LENGTH]
           /\ \E r \in {ZUC_Integrity(IK, COUNT, BEARER, DIRECTION, M, LENGTH)} :
                macCall' \in MacReturned(r, M)
  /\ macPc' = "computed"
  /\ UNCHANGED <<macAgain, macRest>>

MacRepeat ==
  /\ macPc = "computed"
  /\ macArgs.LENGTH % 32 # 0
  /\ \E tail \in {Word1, Shr32(<<255, 255, 255, 255>>, macArgs.LENGTH % 32)} :
       LET n == Len(macArgs.M)
           M == [macArgs.M EXCEPT ![n] = Xor32(macArgs.M[n], tail)]
       IN  \E r \in {ZUC_Integrity(macArgs.IK, macArgs.COUNT, macArgs.BEARER,
                                    macArgs.DIRECTION, M, macArgs.LENGTH)} :
             \E ret \in MacReturned(r, M) : macAgain' = [M |-> M, call |-> ret]
  /\ macPc' = "repeated"
  /\ UNCHANGED <<macArgs, macCall, macRest>>

MacNext == MacCompute \/ MacRepeat

SpecZUCIntegrity == Init /\ [][MacNext]_vars

(***************************************************************************)
(* The key exchange between an initiator A and a responder B.  Each step   *)
(* takes the message sent to it as the network delivers it: unmodified, or *)
(* replaced by another value.  A step that fails ends the exchange.        *)
(***************************************************************************)
KxZA == <<18, 52>>

KxZB == <<86, 120>>

KxScalars == 1 .. (SM2_n - 1)

\* A point as it may arrive: the point sent, its double, or a pair off the curve.
KxDeliveredPoint(R) == {R, ecurve_double(R), Affine(1, 1)}

\* A hash as it may arrive: the hash sent, or one with its first byte changed.
KxDeliveredHash(S) ==
  {S} \cup (IF S = <<>> THEN {} ELSE {[S EXCEPT ![1] = (S[1] + 1) % 256]})

KxKeyGen ==
  /\ kxPc = "start"
  /\ \E dA \in 1 .. MaxKxKey, dB \in 1 .. MaxKxKey, klen \in 1 .. MaxKxKlen :
       /\ kxKeys' = [dA |-> dA, dB |-> dB,
                     PA |-> ENC_SM2_KeyGeneration(dA).pubKey,
                     PB |-> ENC_SM2_KeyGeneration(dB).pubKey]
       /\ kxKlen' = klen
  /\ kxPc' = "Init_I"
  /\ UNCHANGED <<kxRa, kxRb, kxA, kxB, kxRet, kxHonest, kxRest>>

KxInitI ==
  /\ kxPc = "Init_I"
  /\ \E ra \in KxScalars :
       LET c == SM2_KeyEx_Init_I(ra)
       IN  /\ kxRa' = ra
           /\ kxA' = [kxA EXCEPT !.RA = c.RA]
           /\ kxRet' = Append(kxRet, c.ret)
           /\ kxPc' = IF c.ret = 0 THEN "Re_I" ELSE "stopped"
  /\ UNCHANGED <<kxKeys, kxKlen, kxRb, kxB, kxHonest, kxRest>>

KxReI ==
  /\ kxPc = "Re_I"
  /\ \E rb \in KxScalars, RA \in KxDeliveredPoint(kxA.RA) :
       LET c == SM2_KeyEx_Re_I(rb, kxKeys.dB, RA, kxKeys.PA, KxZA, KxZB, kxKlen)
       IN  /\ kxRb' = rb
           /\ kxB' = [kxB EXCEPT !.RA = RA, !.RB = c.RB, !.V = c.V, !.SB = c.hash,
                                  !.K = Written(c.K)]
           /\ kxRet' = Append(kxRet, c.ret)
           /\ kxHonest' = (kxHonest /\ RA = kxA.RA)
           /\ kxPc' = IF c.ret = 0 THEN "Init_II" ELSE "stopped"
  /\ UNCHANGED <<kxKeys, kxKlen, kxRa, kxA, kxRest>>

KxInitII ==
  /\ kxPc = "Init_II"
  /\ \E RB \in KxDeliveredPoint(kxB.RB), SB \in KxDeliveredHash(kxB.SB) :
       LET c == SM2_KeyEx_Init_II(kxRa, kxKeys.dA, kxA.RA, RB, kxKeys.PB, KxZA, KxZB, SB, kxKlen)
       IN  /\ kxA' = [kxA EXCEPT !.RB = RB, !.SB = SB, !.SA = c.SA, !.K = Written(c.K)]
           /\ kxRet' = Append(kxRet, c.ret)
           /\ kxHonest' = (kxHonest /\ RB = kxB.RB /\ SB = kxB.SB)
           /\ kxPc' = IF c.ret = 0 THEN "Re_II" ELSE "stopped"
  /\ UNCHANGED <<kxKeys, kxKlen, kxRa, kxRb, kxB, kxRest>>

KxReII ==
  /\ kxPc = "Re_II"
  /\ \E SA \in KxDeliveredHash(kxA.SA) :
       LET ret == SM2_KeyEx_Re_II(kxB.V, kxB.RA, kxB.RB, KxZA, KxZB, SA)
       IN  /\ kxB' = [kxB EXCEPT !.SA = SA]
           /\ kxRet' = Append(kxRet, ret)
           /\ kxHonest' = (kxHonest /\ SA = kxA.SA)
  /\ kxPc' = "stopped"
  /\ UNCHANGED <<kxKeys, kxKlen, kxRa, kxRb, kxA, kxRest>>

KxNext == KxKeyGen \/ KxInitI \/ KxReI \/ KxInitII \/ KxReII

SpecKeyEx == Init /\ [][KxNext]_vars

(***************************************************************************)
(* The KDF called on its own: a caller picks Z and klen and calls SM3_KDF  *)
(* on a fresh buffer.                                                      *)
(***************************************************************************)
KdfInputs == {<<x>> : x \in ByteSyms} \cup {<<x, y>> : x \in ByteSyms, y \in ByteSyms}

KdfLens == (0 .. MaxKlen) \cup (KdfFar .. (KdfFar + MaxKlen))

KdfCall ==
  /\ kdfPc = "idle"
  /\ \E Z \in KdfInputs, klen \in KdfLens :
       /\ kdfZ' = Z
       /\ kdfKlen' = klen
       /\ kdfK' = Written(SM3_KDF(Z, klen))
  /\ kdfPc' = "done"
  /\ UNCHANGED kdfRest

KdfReturn ==
  /\ kdfPc = "done"
  /\ kdfPc' = "idle"
  /\ kdfZ' = <<>>
  /\ kdfKlen' = 0
  /\ kdfK' = Written(NoWrites)
  /\ UNCHANGED kdfRest

KdfNext == KdfCall \/ KdfReturn

SpecKDF == Init /\ [][KdfNext]_vars

(***************************************************************************)
(* ZUC.c: ZUC_GenKeyStream followed one round at a time.  KsCall is the    *)
(* entry of ZUC_Init up to its loop; KsInitRound is one pass of that loop; *)
(* KsWorkFirst is the return of ZUC_Init and the round ZUC_Work runs       *)
(* before its loop; KsWorkRound is one pass of the loop of ZUC_Work;       *)
(* KsReturn is the exit of that loop.                                      *)
(***************************************************************************)
KsVector3 ==
  [k |-> <<61, 76, 75, 233, 106, 130, 253, 174, 181, 143, 100, 29, 177, 123, 69, 91>>,
   iv |-> <<132, 49, 154, 168, 222, 105, 21, 202, 31, 107, 218, 107, 251, 216, 199, 102>>]

KsInputs ==
  {KsVector3} \cup {[k |-> [i \in 1 .. 16 |-> a], iv |-> [i \in 1 .. 16 |-> b]] : a, b \in {0, 255}}

KsCall ==
  /\ ksPc = "start"
  /\ \E in \in KsInputs, KeyStreamLen \in 0 .. MaxKsLen :
       /\ ksK' = in.k
       /\ ksIV' = in.iv
       /\ ksLen' = KeyStreamLen
       /\ ksSt' = ZUC_Loaded(in.k, in.iv)
  /\ ksRounds' = <<>>
  /\ ksPc' = "ZUC_Init"
  /\ UNCHANGED ksRest

KsInitRound ==
  /\ ksPc = "ZUC_Init"
  /\ ksSt.count # 0
  /\ ksSt' = ZUC_InitStep(ksSt)
  /\ ksRounds' = Append(ksRounds, "init")
  /\ UNCHANGED <<ksPc, ksK, ksIV, ksLen, ksRest>>

KsWorkFirst ==
  /\ ksPc = "ZUC_Init"
  /\ ksSt.count = 0
  /\ ksSt' = ZUC_WorkFirst([LFSR_S |-> ksSt.LFSR_S, BR_X |-> ksSt.BR_X, F_R |-> ksSt.F_R])
  /\ ksRounds' = Append(ksRounds, "discard")
  /\ ksPc' = "ZUC_Work"
  /\ UNCHANGED <<ksK, ksIV, ksLen, ksRest>>

KsWorkRound ==
  /\ ksPc = "ZUC_Work"
  /\ ksSt.i < ksLen
  /\ ksSt' = ZUC_WorkStep(ksSt)
  /\ ksRounds' = Append(ksRounds, "work")
  /\ UNCHANGED <<ksPc, ksK, ksIV, ksLen, ksRest>>

KsReturn ==
  /\ ksPc = "ZUC_Work"
  /\ ~(ksSt.i < ksLen)
  /\ ksPc' = "returned"
  /\ UNCHANGED <<ksK, ksIV, ksLen, ksSt, ksRounds, ksRest>>

KsNext == KsCall \/ KsInitRound \/ KsWorkFirst \/ KsWorkRound \/ KsReturn

SpecZUCRounds == Init /\ [][KsNext]_vars

(***************************************************************************)
(* Single calls of Test_PubKey (SM2_sv.c and SM2_ENC.c), AddMod, PowMod    *)
(* and the two LFSR modes (ZUC.c) on arguments of the caller's choice.     *)
(***************************************************************************)
\* An epoint as the caller may hold it: the point at infinity, or a pair of
\* coordinates, on the curve or not, below p or not.
FnPoints == {Infinity} \cup {Affine(x, y) : x, y \in 0 .. (SM2_p + 1)}

\* Values of [0, 2^31 - 1]: 0, 1, 2^31 - 1, 2^31 - 2, 2^30, 2^30 - 1, and
\* 0x12345678 with 0x6dcba987, whose sum is 2^31 - 1.
FnWords31 ==
  {<<0, 0, 0, 0>>, <<0, 0, 0, 1>>, <<127, 255, 255, 255>>, <<127, 255, 255, 254>>,
   <<64, 0, 0, 0>>, <<63, 255, 255, 255>>, <<18, 52, 86, 120>>, <<109, 203, 169, 135>>}

\* LFSR states with one cell, among those the feedback reads and s1, set apart.
FnStates ==
  {[i \in 1 .. 16 |-> IF i = c THEN w1 ELSE w2] : c \in {1, 2, 5, 11, 14, 16}, w1, w2 \in FnWords31}

FnTestPubKey ==
  /\ fnPc = "start"
  /\ \E P \in FnPoints :
       /\ fnIn' = P
       /\ fnOut' = [sv |-> Test_PubKey(P), enc |-> ENC_Test_PubKey(P), pubKey |-> P]
  /\ fnPc' = "Test_PubKey"
  /\ UNCHANGED fnRest

FnAddMod ==
  /\ fnPc = "start"
  /\ \E a, b \in FnWords31 :
       /\ fnIn' = <<a, b>>
       /\ fnOut' = AddMod(a, b)
  /\ fnPc' = "AddMod"
  /\ UNCHANGED fnRest

FnPowMod ==
  /\ fnPc = "start"
  /\ \E x \in FnWords31, k \in 1 .. 30 :
       /\ fnIn' = <<x, k>>
       /\ fnOut' = PowMod(x, k)
  /\ fnPc' = "PowMod"
  /\ UNCHANGED fnRest

FnLFSR ==
  /\ fnPc = "start"
  /\ \E S \in FnStates :
       /\ fnIn' = S
       /\ fnOut' = [init |-> LFSRWithInitMode(S, Word0), work |-> LFSRWithWorkMode(S)]
  /\ fnPc' = "LFSR"
  /\ UNCHANGED fnRest

FnNext == FnTestPubKey \/ FnAddMod \/ FnPowMod \/ FnLFSR

SpecCalls == Init /\ [][FnNext]_vars

(***************************************************************************)
(* ZUC.c: ZUC_SelfCheck.  The three calls fill Keystream, cipher and MAC;  *)
(* what the comparisons detect is seen by letting one byte of one of the   *)
(* three differ from what the call computes.                               *)
(***************************************************************************)
ScComputed ==
  [Keystream |-> ZUC_GenKeyStream([i \in 1 .. 16 |-> 0], [i \in 1 .. 16 |-> 0],
                                   KeystreamLen).pKeyStream,
   cipher    |-> ZUC_Confidentiality(SelfCheck_key, SelfCheck_COUNT, SelfCheck_BEARER, 0,
                                     SelfCheck_plain, plainlen),
   MAC       |-> ZUC_Integrity([i \in 1 .. 16 |-> 0], Word0, 0, 0, <<Word0>>, 1).MAC]

\* The word w with the bits of flip changed in byte b.
ScFlip(w, b, flip) == [w EXCEPT ![b] = Xor(w[b], flip)]

ScFaulty(good) ==
  {good}
    \cup {[good EXCEPT !.Keystream[i] = ScFlip(good.Keystream[i], b, flip)] :
             i \in 1 .. KeystreamLen, b \in 1 .. 4, flip \in {1, 128}}
    \cup {[good EXCEPT !.cipher[i] = ScFlip(good.cipher[i], b, flip)] :
             i \in 1 .. ((plainlen + 31) \div 32), b \in 1 .. 4, flip \in {1, 128}}
    \cup {[good EXCEPT !.MAC = ScFlip(good.MAC, b, flip)] : b \in 1 .. 4, flip \in {1, 128}}

ScCheck ==
  /\ scPc = "start"
  /\ \E good \in {ScComputed} :
       \E got \in ScFaulty(good), endian \in {"little", "big"}, past \in {0, 1} :
         /\ scGot' = [Keystream |-> got.Keystream, cipher |-> got.cipher, MAC |-> got.MAC,
                      endian |-> endian, past |-> past]
         /\ scRet' = ZUC_SelfCheck(got.Keystream, got.cipher, got.MAC,
                                   [endian |-> endian, past |-> past])
  /\ scPc' = "checked"
  /\ UNCHANGED scRest

ScNext == ScCheck

SpecZUCSelfCheck == Init /\ [][ScNext]_vars

(***************************************************************************)
(* C6: after SM3_KDF(Z, zlen, klen, K), K[0..klen-1] are the first klen    *)
(* bytes of SM3(Z || BE32(1)) || SM3(Z || BE32(2)) || ... : byte o comes   *)
(* from the block hashed with the big-endian counter o / NUMWORD + 1, and  *)
(* the last block is cut at klen (no byte at or after K[klen] is written). *)
(***************************************************************************)
BE32(i) == big_to_bytes(4, i)

C6_KdfStream ==
  kdfPc = "done" =>
    /\ \A o \in 0 .. (kdfKlen - 1) :
         /\ o \in DOMAIN kdfK
         /\ kdfK[o] = SM3_256(kdfZ \o BE32((o \div SM2_NUMWORD) + 1))[(o % SM2_NUMWORD) + 1]
    /\ \A o \in DOMAIN kdfK : o < kdfKlen

C6_Witness ==
  /\ kdfPc = "done"
  /\ kdfKlen = KdfFar + SM2_NUMWORD + 1
  /\ Len(kdfZ) = 2

(***************************************************************************)
(* C7: SM3_KDF writes exactly the bytes K[0..klen-1] of the caller's       *)
(* buffer: nothing before K[0], nothing at or after K[klen].               *)
(***************************************************************************)
C7_WritesExactlyK ==
  kdfPc = "done" => DOMAIN kdfK = 0 .. (kdfKlen - 1)

(***************************************************************************)
(* Signatures.                                                             *)
(***************************************************************************)
SvSigned == svPc = "signed" /\ svCall.fn = "SM2_Sign"

SvVerified == svPc = "verified" /\ svCall.fn = "SM2_Verify"

SvValidD == bytes_to_big(svD) \in 1 .. (SM2_n - 2)

SvValidK == bytes_to_big(svRand) \in 1 .. (SM2_n - 1)

\* C2: a signature SM2_Sign produced with a valid private key d and a k in
\* [1, n-1] is accepted by SM2_Verify under the public key d*G, for the same
\* message and ZA.
C2_SignThenVerify ==
  (SvVerified /\ svHonest /\ SvValidD /\ SvValidK) => svCall.ret = 0

C2_Witness ==
  /\ SvVerified /\ svHonest /\ SvValidD /\ SvValidK
  /\ svCall.ret = 0
  /\ Len(svMsg) = MaxMsgLen
  /\ bytes_to_big(svR) = SM2_n - 1

\* C8: with r = (e + x1) mod n, (x1, y1) = k*G, and s the solution of
\* (1+d)*s = k - r*d (mod n), SM2_Sign returns ERR_GENERATE_R exactly when
\* r = 0 or r + k = n, otherwise ERR_GENERATE_S exactly when s = 0, and
\* otherwise 0 with R and S the big-endian encodings of r and s.
C8_SignResult ==
  SvSigned =>
    LET k == bytes_to_big(svRand)
        d == bytes_to_big(svD)
        e == bytes_to_big(SM3_256(svZA \o svMsg))
        x1 == epoint_get(ecurve_mult(k, G))[1]
        r == ((e % SM2_n) + x1) % SM2_n
        s == CHOOSE z \in 0 .. (SM2_n - 1) :
               ((1 + d) * z) % SM2_n = (k + SM2_n * SM2_n - r * d) % SM2_n
    IN  IF r = 0 \/ r + k = SM2_n
        THEN svCall.ret = ERR_GENERATE_R
        ELSE IF s = 0
             THEN svCall.ret = ERR_GENERATE_S
             ELSE /\ svCall.ret = 0
                  /\ svR = big_to_bytes(SM2_NUMWORD, r)
                  /\ svS = big_to_bytes(SM2_NUMWORD, s)

C8_Witness ==
  /\ SvSigned
  /\ svCall.ret = ERR_GENERATE_R
  /\ bytes_to_big(svRand) \in 1 .. (SM2_n - 1)
  /\ (bytes_to_big(SM3_256(svZA \o svMsg))
        + epoint_get(ecurve_mult(bytes_to_big(svRand), G))[1]) % SM2_n # 0

\* C9: whenever SM2_Sign returns 0, the scalars it wrote lie in [1, n-1] and
\* Test_Range accepts both, whatever k and d it was given.
C9_SignedInRange ==
  (SvSigned /\ svCall.ret = 0) =>
    /\ bytes_to_big(svR) \in 1 .. (SM2_n - 1)
    /\ bytes_to_big(svS) \in 1 .. (SM2_n - 1)
    /\ Test_Range(bytes_to_big(svR)) = 0
    /\ Test_Range(bytes_to_big(svS)) = 0

C9_Witness ==
  /\ SvSigned /\ svCall.ret = 0
  /\ bytes_to_big(svS) = SM2_n - 1
  /\ bytes_to_big(svRand) = SM2_n

ScalarMults ==
  {"ecurve_mult n G", "ecurve_mult d G", "ecurve_mult k G", "ecurve_mult s G",
   "ecurve_mult t PA"}

VerifyChecks == {"Test_Range r", "Test_Range s", "Test_Zero t"}

SvKeyOnCurve == epoint_set(bytes_to_big(svPx), bytes_to_big(svPy), epoint_init).ok

VerifyCodesInOrder ==
  LET r == bytes_to_big(svR)
      s == bytes_to_big(svS)
  IN  IF r \notin 1 .. (SM2_n - 1)
      THEN svCall.ret = ERR_OUTRANGE_R
      ELSE IF s \notin 1 .. (SM2_n - 1)
           THEN svCall.ret = ERR_OUTRANGE_S
           ELSE ((r + s) % SM2_n = 0) => svCall.ret = ERR_GENERATE_T

ChecksPrecedeMults ==
  \A i, j \in DOMAIN svCall.ops :
    (svCall.ops[i] \in ScalarMults /\ svCall.ops[j] \in VerifyChecks) => j < i

\* C10: for a public key on the curve SM2_Verify returns ERR_OUTRANGE_R when
\* r is outside [1, n-1], otherwise ERR_OUTRANGE_S when s is outside
\* [1, n-1], otherwise ERR_GENERATE_T when (r + s) mod n = 0, and every one
\* of these checks it makes comes before every scalar multiplication of the
\* call.
C10_ChecksBeforeMult ==
  (SvVerified /\ SvKeyOnCurve) => (VerifyCodesInOrder /\ ChecksPrecedeMults)

\* The return codes alone, as SM2_Verify produces them.
C10_ReturnCodes == (SvVerified /\ SvKeyOnCurve) => VerifyCodesInOrder

C10_Witness ==
  /\ SvVerified /\ SvKeyOnCurve
  /\ svCall.ret = ERR_GENERATE_T
  /\ \E i \in DOMAIN svCall.ops : svCall.ops[i] = "Test_Zero t"

\* C16: in every run of SM2 operations SM2_Init is executed exactly once,
\* before the first operation, and no operation executes it again.
C16_InitOnce ==
  /\ svInits <= 1
  /\ svCall.fn \in {"SM2_Sign", "SM2_Verify"} => InitCalls(svCall.ops) = 0

\* C17: when SM2_Sign or SM2_Verify has returned, whatever the return code,
\* nothing it allocated is still live.
C17_NothingLive ==
  svCall.fn \in {"SM2_Sign", "SM2_Verify"} => svCall.live = 0

\* The case of C11: the public key is on the curve, r and s are in [1, n-1]
\* and t = (r + s) mod n is not 0.
SvVerifyStep6 ==
  /\ SvVerified /\ SvKeyOnCurve
  /\ bytes_to_big(svR) \in 1 .. (SM2_n - 1)
  /\ bytes_to_big(svS) \in 1 .. (SM2_n - 1)
  /\ (bytes_to_big(svR) + bytes_to_big(svS)) % SM2_n # 0

\* C11: in that case SM2_Verify returns 0 if and only if (e + x1) mod n = r,
\* where (x1, y1) = s*G + t*PA and e = SM3(ZA || M) as an integer, and
\* ERR_DATA_MEMCMP otherwise.
C11_VerifyAcceptsIff ==
  SvVerifyStep6 =>
    LET r == bytes_to_big(svR)
        s == bytes_to_big(svS)
        t == (r + s) % SM2_n
        PA == Affine(bytes_to_big(svPx), bytes_to_big(svPy))
        x1 == epoint_get(ecurve_add(ecurve_mult(s, G), ecurve_mult(t, PA)))[1]
        e == bytes_to_big(SM3_256(svZA \o svMsg))
    IN  svCall.ret = IF (e + x1) % SM2_n = r THEN 0 ELSE ERR_DATA_MEMCMP

\* A pair (r, s) that SM2_Sign did not produce and SM2_Verify accepts.
C11_Witness ==
  /\ SvVerifyStep6
  /\ ~svHonest
  /\ svCall.ret = 0
  /\ Len(svMsg) = 1

(***************************************************************************)
(* Encryption.                                                             *)
(***************************************************************************)
EncValid ==
  /\ encD \in 1 .. (SM2_n - 2)
  /\ bytes_to_big(encRand) \in 1 .. (SM2_n - 1)

EncDecrypted == encPc = "decrypted" /\ encCall.fn = "SM2_Decrypt"

EncPlain == [i \in 1 .. Len(encM) |-> encOut[i - 1]]

\* The key stream KDF(x2 || y2, klen) of the specification, (x2, y2) = k*P.
EncStream ==
  LET kP == epoint_get(ecurve_mult(bytes_to_big(encRand), encPub))
      Z == big_to_bytes(SM2_NUMWORD, kP[1]) \o big_to_bytes(SM2_NUMWORD, kP[2])
  IN  [i \in 1 .. Len(encM) |->
         SM3_256(Z \o BE32(((i - 1) \div SM2_NUMWORD) + 1))[((i - 1) % SM2_NUMWORD) + 1]]

\* C1, as stated: for every valid d, every k in [1, n-1] and every message
\* of length klen >= 0, SM2_Encrypt returns 0 and SM2_Decrypt of its output
\* returns 0 with the message.
C1_RoundTrip ==
  (EncDecrypted /\ EncValid) =>
    (encRet = 0 /\ encCall.ret = 0 /\ EncPlain = encM)

\* C1, amended: for every valid d and k in [1, n-1], SM2_Encrypt returns 0
\* exactly when the key stream has a non-zero byte (so never for klen = 0)
\* and ERR_ARRAY_NULL otherwise; whenever it returned 0, SM2_Decrypt of its
\* output returns 0 with the message.
C1_RoundTripWhenEncrypted ==
  (encPc \in {"encrypted", "decrypted"} /\ EncValid) =>
    /\ encRet = (IF \E i \in 1 .. Len(encM) : EncStream[i] # 0 THEN 0 ELSE ERR_ARRAY_NULL)
    /\ (EncDecrypted /\ encRet = 0) => (encCall.ret = 0 /\ EncPlain = encM)

C1_Witness ==
  /\ EncDecrypted /\ EncValid
  /\ encRet = 0 /\ encCall.ret = 0
  /\ Len(encM) = MaxEncLen
  /\ encM[1] = 255

\* SM2_Decrypt has returned, for the ciphertext as sent or as altered.
EncReceived ==
  /\ encPc \in {"decrypted", "decrypted tampered"}
  /\ encCall.fn = "SM2_Decrypt"

\* The fields of the ciphertext the receiver was given; the coordinates of
\* C1 are taken modulo p, as the backend takes them.
EncC1 ==
  <<bytes_to_big(<<encC[0], encC[1]>>) % SM2_p, bytes_to_big(<<encC[2], encC[3]>>) % SM2_p>>

EncC3 == [i \in 1 .. SM2_NUMWORD |-> encC[SM2_NUMWORD * 2 + i - 1]]

EncC2 == [i \in 1 .. Len(encM) |-> encC[SM2_NUMWORD * 3 + i - 1]]

\* x2 || y2 of the receiver, (x2, y2) = d_B * C1.
EncRecvZ ==
  LET P == epoint_get(ecurve_mult(encD, Affine(EncC1[1], EncC1[2])))
  IN  <<big_to_bytes(SM2_NUMWORD, P[1]), big_to_bytes(SM2_NUMWORD, P[2])>>

\* KDF(x2 || y2, klen) of the receiver, by the specification's formula.
EncRecvStream ==
  [i \in 1 .. Len(encM) |->
     SM3_256(EncRecvZ[1] \o EncRecvZ[2] \o BE32(((i - 1) \div SM2_NUMWORD) + 1))
       [((i - 1) % SM2_NUMWORD) + 1]]

\* C1 passes the checks of steps 1 and 2 and the key stream has a non-zero
\* byte.
EncReachesTag ==
  /\ EncReceived
  /\ OnCurve(EncC1[1], EncC1[2])
  /\ ~point_at_infinity(ecurve_mult(SM2_h, Affine(EncC1[1], EncC1[2])))
  /\ \E i \in 1 .. Len(encM) : EncRecvStream[i] # 0

\* The offsets at which the ciphertext received differs from the one sent.
EncAltered ==
  LET sent == Written(SM2_Encrypt(encRand, encPub, encM, Len(encM),
                                  Fresh(Len(encM) + SM2_NUMWORD * 3)).C)
  IN  {pos \in 0 .. (Len(encM) + SM2_NUMWORD * 3 - 1) : encC[pos] # sent[pos]}

EncStoppedAfter(ops) ==
  /\ encCall.ops = ops
  /\ encOut = Written(Fresh(Len(encM)))

\* C13: SM2_Decrypt returns ERR_NOT_VALID_POINT for every ciphertext whose
\* (C1x, C1y) does not satisfy the curve equation, and ERR_INFINITY_POINT
\* when h*C1 is the point at infinity; in both cases it returns before
\* d_B*C1 is computed and without a write to M.
C13_BadC1StopsEarly ==
  EncReceived =>
    /\ ~OnCurve(EncC1[1], EncC1[2]) =>
         /\ encCall.ret = ENC_ERR_NOT_VALID_POINT
         /\ EncStoppedAfter(<<"epoint_set C1", "Test_Point">>)
    /\ (OnCurve(EncC1[1], EncC1[2])
          /\ point_at_infinity(ecurve_mult(SM2_h, Affine(EncC1[1], EncC1[2])))) =>
         /\ encCall.ret = ENC_ERR_INFINITY_POINT
         /\ EncStoppedAfter(<<"epoint_set C1", "Test_Point", "ecurve_mult h C1">>)
    /\ encCall.ret \in {ENC_ERR_NOT_VALID_POINT, ENC_ERR_INFINITY_POINT} =>
         /\ \A w \in DOMAIN encCall.ops : encCall.ops[w] # "ecurve_mult d C1"
         /\ encOut = Written(Fresh(Len(encM)))

C13_Witness ==
  /\ EncReceived
  /\ ~OnCurve(EncC1[1], EncC1[2])
  /\ bytes_to_big(<<encC[0], encC[1]>>) >= SM2_p
  /\ encCall.ret = ENC_ERR_NOT_VALID_POINT
  /\ Len(encM) = MaxEncLen

\* SM2_Encrypt has returned and nothing was called since.
EncEncrypted == encPc = "encrypted" /\ encCall.fn = "SM2_Encrypt"

\* C14: SM2_Encrypt returns ERR_INFINITY_POINT exactly when h*P_B is the
\* point at infinity, otherwise ERR_ARRAY_NULL exactly when all klen bytes of
\* t = KDF(x2 || y2, klen) are zero, otherwise 0; the all-zero test comes
\* before C2 and C3 are computed.
C14_EncryptCodes ==
  EncEncrypted =>
    /\ encCall.ret =
         IF point_at_infinity(ecurve_mult(SM2_h, encPub)) THEN ENC_ERR_INFINITY_POINT
         ELSE IF \A i \in 1 .. Len(encM) : EncStream[i] = 0 THEN ERR_ARRAY_NULL
         ELSE 0
    /\ \A v, w \in DOMAIN encCall.ops :
         (encCall.ops[v] = "Test_Null" /\ encCall.ops[w] \in {"write C2", "write C3"}) => v < w
    /\ encCall.ret = 0 =>
         \E v \in DOMAIN encCall.ops : encCall.ops[v] = "Test_Null"
    /\ encCall.ret # 0 =>
         \A w \in DOMAIN encCall.ops : encCall.ops[w] \notin {"write C2", "write C3"}

C14_Witness ==
  /\ EncEncrypted
  /\ ~point_at_infinity(ecurve_mult(SM2_h, encPub))
  /\ encCall.ret = ERR_ARRAY_NULL
  /\ bytes_to_big(encRand) \in 1 .. (SM2_n - 1)

\* C15: on success SM2_Encrypt writes exactly klen + 3*SM2_NUMWORD bytes:
\* X || Y of k*G, big-endian and without a prefix byte, at offset 0; the tag
\* SM3(x2 || M || y2) at offset 2*SM2_NUMWORD; M[i] XOR t[i] at offset
\* 3*SM2_NUMWORD + i.  SM2_Decrypt takes C1, the tag and C2 from the same
\* offsets.
C15_Layout ==
  /\ (encPc \in {"encrypted", "decrypted"} /\ encRet = 0) =>
       LET kG == epoint_get(ecurve_mult(bytes_to_big(encRand), G))
           kP == epoint_get(ecurve_mult(bytes_to_big(encRand), encPub))
           x2 == big_to_bytes(SM2_NUMWORD, kP[1])
           y2 == big_to_bytes(SM2_NUMWORD, kP[2])
       IN  /\ DOMAIN encC = 0 .. (Len(encM) + SM2_NUMWORD * 3 - 1)
           /\ [i \in 1 .. SM2_NUMWORD |-> encC[i - 1]] = big_to_bytes(SM2_NUMWORD, kG[1])
           /\ [i \in 1 .. SM2_NUMWORD |-> encC[SM2_NUMWORD + i - 1]] = big_to_bytes(SM2_NUMWORD, kG[2])
           /\ EncC3 = SM3_256(x2 \o encM \o y2)
           /\ \A i \in 1 .. Len(encM) : EncC2[i] = Xor(encM[i], EncStream[i])
  /\ (EncReceived /\ encCall.ret \in {0, ERR_C3_MATCH}) =>
       /\ EncPlain = [i \in 1 .. Len(encM) |-> Xor(EncC2[i], EncRecvStream[i])]
       /\ encCall.ret = 0 <=> SM3_256(EncRecvZ[1] \o EncPlain \o EncRecvZ[2]) = EncC3

C15_Witness ==
  /\ EncDecrypted
  /\ encRet = 0 /\ encCall.ret = 0
  /\ Len(encM) = MaxEncLen
  /\ bytes_to_big(encRand) = SM2_n - 1
  /\ encD = SM2_n - 2

\* The last step of the call.
EncLastStep == encCall.ops[Len(encCall.ops)]

\* The backend accepted the C1 field when SM2_Decrypt set the point.
EncC1Set ==
  epoint_set(bytes_to_big(<<encC[0], encC[1]>>), bytes_to_big(<<encC[2], encC[3]>>),
             epoint_init).ok

\* The step that produced a non-zero return code is the last one executed.
EncFailingCheckIsLast ==
  /\ EncEncrypted =>
       /\ encCall.ret = ENC_ERR_INFINITY_POINT => EncLastStep = "ecurve_mult h P"
       /\ encCall.ret = ERR_ARRAY_NULL => EncLastStep = "Test_Null"
  /\ EncReceived =>
       /\ encCall.ret = ENC_ERR_NOT_VALID_POINT => EncLastStep = "Test_Point"
       /\ encCall.ret = ENC_ERR_INFINITY_POINT => EncLastStep = "ecurve_mult h C1"
       /\ encCall.ret = ERR_ARRAY_NULL => EncLastStep = "Test_Null"
       /\ encCall.ret = ERR_C3_MATCH => EncLastStep = "memcmp C3"

\* C18: an operation returns at the first step that fails and executes no
\* later step: the check that gave the return code is the last step, and
\* when the point cannot be set nothing follows the attempt.
C18_FailFast ==
  /\ EncFailingCheckIsLast
  /\ (EncReceived /\ ~EncC1Set) => EncLastStep = "epoint_set C1"

(***************************************************************************)
(* SM4.                                                                    *)
(***************************************************************************)
\* C3: SM4_Decrypt under the key MK of the block SM4_Encrypt produced under
\* MK returns the plaintext block; the X array of the decryption is the X
\* array of the encryption in reverse, both functions storing
\* (X35, X34, X33, X32).
C3_Sm4RoundTrip ==
  sm4Pc = "decrypted" =>
    /\ sm4Out = sm4Plain
    /\ \A i \in 1 .. 36 : sm4DecX[i] = sm4EncX[37 - i]
    /\ sm4Cipher = sm4EncX[36] \o sm4EncX[35] \o sm4EncX[34] \o sm4EncX[33]
    /\ sm4Out = sm4DecX[36] \o sm4DecX[35] \o sm4DecX[34] \o sm4DecX[33]

C3_Witness ==
  /\ sm4Pc = "decrypted"
  /\ sm4MK = Sm4Std /\ sm4Plain = Sm4Std
  /\ sm4Cipher = <<104, 30, 223, 52, 210, 6, 150, 94, 134, 179, 233, 79, 83, 110, 66, 70>>
  /\ sm4Out = Sm4Std

(***************************************************************************)
(* ZUC.                                                                    *)
(***************************************************************************)
\* The word w with all but its first t bits cleared, 0 < t < 32.
FirstBits(w, t) == Shl32(Shr32(w, 32 - t), 32 - t)

\* The input stream with the bits past LENGTH cleared in its last word.
ZucFirstLength ==
  [i \in 1 .. Len(zucIBS) |->
     IF i = Len(zucIBS) /\ zucLENGTH % 32 # 0
     THEN FirstBits(zucIBS[i], zucLENGTH % 32)
     ELSE zucIBS[i]]

\* C4, as stated: ZUC_Confidentiality applied twice with the same parameters
\* to a stream of ceil(LENGTH / 32) words returns that stream.
C4_TwiceIsIdentity == zucPc = "decrypted" => zucOut = zucIBS

\* C4, amended: ZUC_Confidentiality applied twice with the same parameters
\* returns the first LENGTH bits of the stream, the remaining bits of the
\* last word cleared; it returns the stream itself when LENGTH is a multiple
\* of 32 or those bits were zero.
C4_TwiceKeepsLengthBits == zucPc = "decrypted" => zucOut = ZucFirstLength

C4_Witness ==
  /\ zucPc = "decrypted"
  /\ zucLENGTH = 33
  /\ zucIBS = <<<<18, 52, 86, 120>>, <<18, 52, 86, 120>>>>
  /\ zucOut = <<<<18, 52, 86, 120>>, <<0, 0, 0, 0>>>>
  /\ zucOBS # zucIBS

\* The key stream of the call whose arguments the state holds, L words.
ZucStream ==
  ZUC_GenKeyStream(zucCK, ZUC_iv(zucCOUNT, zucBEARER, zucDIRECTION),
                   (zucLENGTH + 31) \div 32).pKeyStream

\* C21: ZUC_Confidentiality generates L = ceil(LENGTH / 32) key stream words
\* and returns L words OBS[i] = IBS[i] XOR k[i]; when t = LENGTH mod 32 is
\* not 0 the low 32 - t bits of the last word are zero and its high t bits
\* are those of IBS XOR k; when t = 0 no word is masked; nothing is written
\* at an index >= L.
C21_ConfidentialityWords ==
  zucPc = "encrypted" =>
    \A k \in {ZucStream} :
      LET L == (zucLENGTH + 31) \div 32
          t == zucLENGTH % 32
      IN  /\ Len(k) = L
          /\ DOMAIN zucOBS = 1 .. L
          /\ \A i \in 1 .. L :
               (i < L \/ t = 0) => zucOBS[i] = Xor32(zucIBS[i], k[i])
          /\ (t # 0) =>
               /\ Shl32(zucOBS[L], t) = <<0, 0, 0, 0>>
               /\ Shr32(zucOBS[L], 32 - t) = Shr32(Xor32(zucIBS[L], k[L]), 32 - t)

C21_Witness ==
  /\ zucPc = "encrypted"
  /\ zucLENGTH = 33
  /\ Len(zucOBS) = 2
  /\ zucOBS[2] # <<0, 0, 0, 0>>
  /\ zucOBS[1] # zucIBS[1]

\* C22: every index of the key stream that ZUC_Integrity reads through GetWord
\* is smaller than the allocated length L = ceil(LENGTH / 32) + 2, and every
\* index of the message it reads through BitValue is smaller than
\* ceil(LENGTH / 32).
C22_IntegrityReadsInside ==
  macPc # "start" =>
    \A r \in {macCall, macAgain.call} :
      r = MacNoCall \/
        /\ r.L = ((macArgs.LENGTH + 31) \div 32) + 2
        /\ \A j \in r.kRead : j < r.L
        /\ \A j \in r.mRead : j < (macArgs.LENGTH + 31) \div 32

\* LENGTH = 33: bit 32 of the message is set, so GetWord(k, 32) and
\* GetWord(k, 33) read k[1] and k[2], and GetWord(k, 96) reads k[3].
C22_Witness ==
  /\ macPc = "computed" /\ macArgs.LENGTH = 33
  /\ macCall.kRead = {0, 1, 2, 3} /\ macCall.mRead = {0, 1}

MacStream ==
  ZUC_GenKeyStream(macArgs.IK,
                   ZUC_Integrity_iv(macArgs.COUNT, macArgs.BEARER, macArgs.DIRECTION),
                   ((macArgs.LENGTH + 31) \div 32) + 2).pKeyStream

\* Bits 0 .. LENGTH - 1 of M, the most significant bit of M[0] first.
MacFirstBits(M) ==
  [i \in 0 .. (macArgs.LENGTH - 1) |->
     (M[(i \div 32) + 1][((i % 32) \div 8) + 1] \div Pow2(7 - (i % 8))) % 2]

\* C30: the MAC of ZUC_Integrity depends only on its parameters and on the
\* first LENGTH bits of M: a message that differs from M only after bit
\* LENGTH - 1, in its last word, has the same MAC, and a message whose first
\* LENGTH bits are zero has the MAC GetWord(k, LENGTH) XOR k[L - 1].
C30_MacOfFirstBits ==
  /\ macPc = "repeated" =>
        /\ MacFirstBits(macAgain.M) = MacFirstBits(macArgs.M)
        /\ macAgain.call.MAC = macCall.MAC
  /\ macPc # "start" =>
        \A k \in {MacStream} :
          \A m \in {[M |-> macArgs.M, call |-> macCall], macAgain} :
            (m.call # MacNoCall /\ \A i \in DOMAIN MacFirstBits(m.M) : MacFirstBits(m.M)[i] = 0)
              => m.call.MAC = Xor32(GetWord(k, macArgs.LENGTH).word, k[Len(k)])

\* The first integrity vector of ZUC_SelfCheck (one zero bit, MAC c8a9595e),
\* then the same call on a message with every later bit set.
C30_Witness ==
  /\ macPc = "repeated" /\ macArgs.LENGTH = 1 /\ macArgs.DIRECTION = 0
  /\ macArgs.IK = [i \in 1 .. 16 |-> 0] /\ macArgs.M = <<Word0>>
  /\ macAgain.M = <<<<127, 255, 255, 255>>>>
  /\ macCall.MAC = <<200, 169, 89, 94>> /\ macAgain.call.MAC = <<200, 169, 89, 94>>

\* Two messages with set bits among the first LENGTH and different later bits.
C30_WitnessSet ==
  /\ macPc = "repeated" /\ macArgs.LENGTH = 33 /\ macArgs.M[2] = <<255, 255, 255, 255>>
  /\ macAgain.M[2] = <<128, 0, 0, 0>> /\ macAgain.call.MAC = macCall.MAC

\* C23: SM2_KeyGeneration produces its output Px, Py only when Test_PubKey
\* has returned 0 for d*G, and it returns 0 exactly when Test_PubKey(d*G) = 0.
C23_KeyAfterTest ==
  svCall.fn = "SM2_KeyGeneration" =>
    /\ (svCall.ret = 0) <=> (Test_PubKey(ecurve_mult(bytes_to_big(svD), G)) = 0)
    /\ svCall.ret # 0 => (svPx = Unset /\ svPy = Unset)
    /\ \A i, j \in DOMAIN svCall.ops :
         (svCall.ops[i] = "write Px Py" /\ svCall.ops[j] = "Test_PubKey") => j < i

\* The code of the first check of the claimed order that the point fails.
FnFirstFailing(P, inf, element, point, order) ==
  IF P.inf THEN inf
  ELSE IF P.x >= SM2_p \/ P.y >= SM2_p THEN element
  ELSE IF ~OnCurve(P.x, P.y) THEN point
  ELSE IF ~ecurve_mult(SM2_n, P).inf THEN order
  ELSE 0

FnSumMod(a, b) ==
  (IF a >= 2147483647 - b THEN a - (2147483647 - b) ELSE a + b) % 2147483647

\* The 31-bit left rotation of x by k: the low 31 - k bits moved up by k, the
\* high k bits moved down.
FnRot31(x, k) == ((x % (2 ^ (31 - k))) * (2 ^ k)) + (x \div (2 ^ (31 - k)))

C25_WitnessRot ==
  /\ fnPc = "PowMod" /\ fnIn = <<<<64, 0, 0, 0>>, 1>> /\ fnOut = <<0, 0, 0, 1>>

\* C29: on an LFSR state with cells in [0, 2^31 - 1], LFSRWithInitMode(S, 0)
\* and LFSRWithWorkMode(S) leave the same state; both shift s_i <- s_(i+1) for
\* i = 0..14 and store 2^31 - 1 for a zero s15; with an injection word u the
\* init mode differs from the work mode in s15 only, by the addition of u.
C29_InitZeroIsWork ==
  fnPc = "LFSR" =>
    /\ fnOut.init = fnOut.work
    /\ Len(fnOut.work) = 16
    /\ \A i \in 1 .. 15 : fnOut.work[i] = fnIn[i + 1]
    /\ fnOut.work[16] # Word0 /\ fnOut.work[16][1] <= 127
    /\ \A v \in {LFSR_v(fnIn)} :
         /\ v # Word0 => fnOut.work[16] = v
         /\ v = Word0 => fnOut.work[16] = <<127, 255, 255, 255>>
         /\ \A u \in FnWords31 :
              \A r \in {LFSRWithInitMode(fnIn, u)} :
                /\ \A i \in 1 .. 15 : r[i] = fnOut.work[i]
                /\ r[16] = IF AddMod(v, u) = Word0 THEN <<127, 255, 255, 255>> ELSE AddMod(v, u)

\* The all-zero state: v = 0, and both modes store 2^31 - 1 in s15.
C29_Witness ==
  /\ fnPc = "LFSR" /\ fnIn = [i \in 1 .. 16 |-> Word0]
  /\ fnOut.init[16] = <<127, 255, 255, 255>> /\ fnOut.work[16] = <<127, 255, 255, 255>>

\* A state with different cells, whose feedback is not zero.
C29_WitnessMixed ==
  /\ fnPc = "LFSR" /\ fnIn[1] = <<18, 52, 86, 120>> /\ fnIn[2] = <<127, 255, 255, 255>>
  /\ fnOut.init = fnOut.work /\ fnOut.work[16] # <<127, 255, 255, 255>>
  /\ fnOut.work[1] = <<127, 255, 255, 255>>

SvSignChecks == {"Test_Zero r", "Test_n rk", "Test_Zero s"}

\* C27: SM2_Sign writes R and S only on its success path, after the r check
\* and the s check: a call that returns a non-zero code leaves R and S as
\* they were.
C27_SignWritesOnSuccess ==
  /\ [](svCall.fn = "SM2_Sign" =>
          /\ svCall.ret \in {0, ERR_ECURVE_INIT, ERR_GENERATE_R, ERR_GENERATE_S}
          /\ (svCall.ret = 0) <=> (\E i \in DOMAIN svCall.ops : svCall.ops[i] = "write R S")
          /\ \A i \in DOMAIN svCall.ops :
               svCall.ops[i] = "write R S" =>
                 \A chk \in SvSignChecks : \E j \in 1 .. (i - 1) : svCall.ops[j] = chk)
  /\ [][(svPc = "keyed" /\ svPc' = "signed" /\ svCall'.ret # 0)
          => (svR' = svR /\ svS' = svS)]_vars

\* A call that passed the r check and failed the s check: R and S keep the
\* contents they had before the call.
C27_Witness ==
  /\ svPc = "signed" /\ svCall.fn = "SM2_Sign" /\ svCall.ret = ERR_GENERATE_S
  /\ svR = Unset /\ svS = Unset

\* Words generated past the longest call followed round by round.
KsAhead == 2

\* C28: for a fixed key and IV and N <= N', the N words of ZUC_GenKeyStream
\* with length N are the first N words of the call with length N'.
C28_KeyStreamPrefix ==
  ksPc = "returned" =>
    /\ \A N \in 0 .. ksLen :
         ZUC_GenKeyStream(ksK, ksIV, N).pKeyStream = SubSeq(ksSt.pKeyStream, 1, N)
    /\ \A long \in {ZUC_GenKeyStream(ksK, ksIV, ksLen + KsAhead).pKeyStream} :
         /\ Len(long) = ksLen + KsAhead
         /\ ksSt.pKeyStream = SubSeq(long, 1, ksLen)
         /\ \A N \in 0 .. (ksLen + KsAhead) :
              ZUC_GenKeyStream(ksK, ksIV, N).pKeyStream = SubSeq(long, 1, N)

\* The third test vector with two words requested: two different words.
C28_Witness ==
  /\ ksPc = "returned" /\ ksLen = 2
  /\ ksK = KsVector3.k /\ ksIV = KsVector3.iv
  /\ ksSt.pKeyStream = <<<<20, 241, 194, 114>>, <<50, 121, 196, 25>>>>
  /\ ZUC_GenKeyStream(ksK, ksIV, 1).pKeyStream = <<<<20, 241, 194, 114>>>>

\* C26: ZUC_SelfCheck returns 0 only if every one of the KeystreamLen key
\* stream words, every one of the ceil(plainlen / 32) output words of
\* ZUC_Confidentiality and the MAC equal the standard values; a mismatch in
\* any bit of any of those words makes it return 1.
C26_SelfCheckDetects ==
  scPc = "checked" =>
    /\ scRet \in {0, 1}
    /\ scRet = 0 =>
         /\ scGot.Keystream = Std_Keystream
         /\ scGot.cipher = Std_cipher
         /\ scGot.MAC = Std_MAC
    /\ (scGot.Keystream # Std_Keystream \/ scGot.cipher # Std_cipher \/ scGot.MAC # Std_MAC)
         => scRet = 1

\* The three calls compute the standard values, and ZUC_SelfCheck then
\* returns 0 unless the bytes compared past the end of Keystream differ.
C26_Standard ==
  /\ scPc = "checked" /\ scRet = 0 /\ scGot.past = 0
  /\ scGot.Keystream = Std_Keystream /\ scGot.cipher = Std_cipher /\ scGot.MAC = Std_MAC

\* A cipher word that differs from the standard, and ZUC_SelfCheck returns 0.
C26_Missed ==
  /\ scPc = "checked" /\ scRet = 0
  /\ scGot.Keystream = Std_Keystream /\ scGot.MAC = Std_MAC
  /\ scGot.cipher[3] # Std_cipher[3]

\* The standard values everywhere, and ZUC_SelfCheck returns 1.
C26_FalseAlarm ==
  /\ scPc = "checked" /\ scRet = 1
  /\ scGot.Keystream = Std_Keystream /\ scGot.cipher = Std_cipher /\ scGot.MAC = Std_MAC

\* C19: in every state reached during ZUC_Init, from the loaded cells
\* through all 32 initialisation rounds, and during ZUC_Work, each of the
\* sixteen cells s0..s15 lies in [1, 2^31 - 1].
C19_CellsInRange ==
  ksPc # "start" =>
    \A c \in 1 .. 16 :
      /\ ksSt.LFSR_S[c][1] < 128
      /\ ksSt.LFSR_S[c] # <<0, 0, 0, 0>>

C19_Witness ==
  /\ ksPc = "returned"
  /\ Len(ksRounds) = 33 + MaxKsLen
  /\ ksK = KsVector3.k
  /\ \E c \in 1 .. 16 : ksSt.LFSR_S[c][1] >= 64

\* The rounds of a call with KeyStreamLen = N: 32 of initialisation, the
\* discarded one, N working ones.
KsExpected(N) ==
  [r \in 1 .. (33 + N) |-> IF r <= 32 THEN "init" ELSE IF r = 33 THEN "discard" ELSE "work"]

\* The first two key stream words of the three test vectors of the ZUC
\* specification.
KsPublished ==
  IF ksK = KsVector3.k /\ ksIV = KsVector3.iv
  THEN <<<<20, 241, 194, 114>>, <<50, 121, 196, 25>>>>
  ELSE IF ksK = [i \in 1 .. 16 |-> 0] /\ ksIV = [i \in 1 .. 16 |-> 0]
  THEN <<<<39, 190, 222, 116>>, <<1, 128, 130, 218>>>>
  ELSE IF ksK = [i \in 1 .. 16 |-> 255] /\ ksIV = [i \in 1 .. 16 |-> 255]
  THEN <<<<6, 87, 207, 160>>, <<112, 150, 57, 139>>>>
  ELSE <<>>

\* The rounds run so far are the first of the expected ones, R1 = R2 = 0
\* before the first, one word is stored per working round and none by the
\* discarded round, and the call returns after 33 + N rounds with the
\* published words.
KsRoundsInOrder ==
  ksPc # "start" =>
    /\ Len(ksRounds) <= 33 + ksLen
    /\ ksRounds = SubSeq(KsExpected(ksLen), 1, Len(ksRounds))
    /\ ksRounds = <<>> => ksSt.F_R = <<<<0, 0, 0, 0>>, <<0, 0, 0, 0>>>>
    /\ Len(ksRounds) >= 33 => Len(ksSt.pKeyStream) = Len(ksRounds) - 33
    /\ ksPc = "returned" =>
         /\ Len(ksRounds) = 33 + ksLen
         /\ \A i \in 1 .. ksLen :
              i <= Len(KsPublished) => ksSt.pKeyStream[i] = KsPublished[i]

\* A round is BR on the cells, F on that BR output and the current R1, R2,
\* then the LFSR step of its mode; a working round stores F XOR X3.
KsRoundStep ==
  Len(ksRounds') = Len(ksRounds) + 1 =>
    LET X == BR(ksSt.LFSR_S)
        f == F(X, ksSt.F_R)
        kind == ksRounds'[Len(ksRounds')]
    IN  /\ ksSt'.BR_X = X
        /\ ksSt'.F_R = f.F_R
        /\ ksSt'.LFSR_S = IF kind = "init"
                          THEN LFSRWithInitMode(ksSt.LFSR_S, Shr32(f.W, 1))
                          ELSE LFSRWithWorkMode(ksSt.LFSR_S)
        /\ kind = "discard" => ksSt'.pKeyStream = <<>>
        /\ kind = "work" => ksSt'.pKeyStream = Append(ksSt.pKeyStream, Xor32(f.W, X[4]))

\* C20: ZUC_GenKeyStream(k, iv, KeyStream, N) sets R1 = R2 = 0, runs exactly
\* 32 rounds of BR, F, LFSRWithInitMode(W >> 1), then one round of BR, F,
\* LFSRWithWorkMode whose output is not stored, then exactly N rounds of BR,
\* z = F XOR X3, LFSRWithWorkMode storing z in KeyStream[i], and returns
\* after 33 + N rounds, for every N >= 0; in each round F is applied once,
\* to the BR output of that round.
C20_GenKeyStreamRounds == [](KsRoundsInOrder) /\ [][KsRoundStep]_vars

C20_Witness ==
  /\ ksPc = "returned"
  /\ ksLen = MaxKsLen
  /\ Len(ksRounds) = 33 + MaxKsLen
  /\ ksK = [i \in 1 .. 16 |-> 0] /\ ksIV = [i \in 1 .. 16 |-> 0]
  /\ ksSt.pKeyStream[1] = <<39, 190, 222, 116>>

(***************************************************************************)
(* Key exchange.                                                           *)
(***************************************************************************)
KxStepsRun == Len(kxRet)

KxAllZero == \A i \in 1 .. Len(kxRet) : kxRet[i] = 0

\* C5: in a run of the four key-exchange steps in which R_A, (R_B, S_B) and
\* S_A are delivered unmodified and every step returns 0, the initiator's
\* key equals the responder's; and with unmodified messages Init_II does not
\* reject S_B and Re_II does not reject S_A.
C5_KeysAgree ==
  /\ (KxStepsRun = 4 /\ kxHonest /\ KxAllZero) => kxA.K = kxB.K
  /\ (KxStepsRun >= 3 /\ kxHonest) => kxRet[3] # ERR_EQUAL_S1SB
  /\ (KxStepsRun = 4 /\ kxHonest) => kxRet[4] # ERR_EQUAL_S2SA

C5_Witness ==
  /\ KxStepsRun = 4 /\ kxHonest /\ KxAllZero
  /\ kxA.K = kxB.K
  /\ DOMAIN kxA.K = 0 .. (kxKlen - 1)
  /\ kxRa # kxRb
  /\ kxKeys.dA # kxKeys.dB
  /\ kxA.SB = kxB.SB /\ kxA.SA = kxB.SA /\ kxA.SA # kxA.SB

=============================================================================
